---- MODULE Spec2Model ----
(***************************************************************************)
(* Model of the hybrid retrieval / ingestion / highlighting engine of      *)
(* ragnarok (ragnarok/rag.py, ragnarok/utils/query_rewrite.py,             *)
(* ragnarok/vector_db.py).                                                 *)
(*                                                                         *)
(* The specifications of the module:                                       *)
(*   SpecRRF     reciprocal_rank_fusion applied to arbitrary ranked lists  *)
(*   SpecRag     one run of rag(): rewrite, dense search, sparse search,   *)
(*               fusion, rerank, generation                                *)
(*   SpecIngest  sequential upload_file calls against the two indices      *)
(*   SpecStore   one upload_file call under any number of raising requests *)
(*   SpecLocate  one run of fetch_highlight_spans                          *)
(*   SpecChunk   runs of create_hierarchical_chunks on the stored pages    *)
(* Every specification constrains all variables; the variables of the      *)
(* other parts stay at their idle value.                                   *)
(***************************************************************************)
EXTENDS Integers, Sequences, FiniteSets

VARIABLES
    \* ---- rag() / reciprocal_rank_fusion --------------------------------
    rag_pc,            \* position inside rag() (or the fusion harness)
    context,           \* rag(context=...): list of conversation turns
    query,             \* rag(query=...)
    settings,          \* AISettings: reranking.enabled, generation.enabled
    history_messages,  \* process_context(context)
    rewritten_query,   \* result of rewrite_query
    rewrite_fault,     \* which step of the rewrite raised ("none" if none)
    searches,          \* the searches issued so far, in order: kind and query text
    es_dense,          \* hits of the engine's answer to the dense search
    hits_cosine,       \* result of VS.knn_search
    hits_bm25,         \* result of VS.bm25_search
    rrf_c,             \* parameter c of reciprocal_rank_fusion
    hits,              \* fused (and possibly reranked) hits
    gen_res,           \* generation result returned by rag()
    rag_outcome,       \* "running", "returned" or the name of the raised error
    calls,             \* number of calls made to each external capability
    \* ---- upload_file / _embed_and_store / delete_kb --------------------
    main_index,        \* passages of the main indices
    hl_index,          \* hierarchical chunks of the highlight indices
    up_pc,             \* position inside upload_file
    up_args,           \* arguments of the running upload_file call
    documents,         \* the parsed documents with the metadata set so far
    batches,           \* _embed_and_store(batches=...)
    failed_batches,    \* failed_batches of the running round
    retries,           \* _embed_and_store(retries=...)
    bi,                \* position of the batch loop in batches
    batch_log,         \* per batch of this upload: its writes and the counts seen
    stored,            \* the main index when _embed_and_store returned
    hl_fault,          \* step of the highlight pipeline that raised
    last,              \* what is kept of the upload_file call that ended last
    calls_left,        \* upload_file calls the behaviour may still start
    faults_left,       \* raising index requests the behaviour may still see
    \* ---- fetch_highlight_spans ----------------------------------------
    loc_pc,            \* position inside fetch_highlight_spans
    l0_hits,           \* result of _score_l0
    li,                \* position of the candidate loop in l0_hits
    candidates,        \* the candidates appended so far
    spans,             \* the list fetch_highlight_spans returns
    loc_outcome,       \* "running", "returned" or "raised"
    \* ---- create_hierarchical_chunks -----------------------------------
    ch_docs,           \* create_hierarchical_chunks(documents=...)
    ch_params,         \* its sizes and overlaps
    ch_runs,           \* what its runs on ch_docs gave, in order
    ch_calls,          \* calls of create_hierarchical_chunks made so far
    \* ---- _prepare_embedding_model ---------------------------------
    embeddings,        \* self._embeddings: the models prepared so far, with their dimension
    es_indices,        \* the embedding indices that exist, with the dims of their vector field
    last_model,        \* name of the model the last _prepare_embedding_model call returned
    \* ---- rag_pipeline_stream --------------------------------------
    sr_pc,             \* position inside rag_pipeline_stream and its response generator
    sr_chunks,         \* the hits rag(...) returned
    sr_text_gen,       \* <<>> without generation, else <<what the model will yield>>
    sr_payload,        \* return_highlights and return_matched_chunks of the payload
    sr_units,          \* the ndjson units sent so far, decoded
    sr_idx,            \* elements of text_gen consumed so far
    \* ---- kronos rag_pipeline / rag_pipeline_stream ----------------
    kr_pc,             \* position inside the kronos endpoint
    kr_res,            \* what ragnarok answers: matched_chunks, top_match, its text units
    kr_store,          \* kb ids with a record in the document store
    kr_cache,          \* kb ids held by the cache of get_kb_cached
    kr_out,            \* what the caller has received so far
    kr_fault,          \* the lookup that raised, or "none"
    \* ---- knn_search / bm25_search filters -------------------------
    ft_pc,             \* position inside the retrieval of rag()
    ft_req,            \* rag(project_id, kb_ids, ftr_custom), settings.reranking.enabled
    ft_filters,        \* the searches issued so far, in order: kind and filter list
    ft_cosine,         \* result of VS.knn_search
    ft_bm25,           \* result of VS.bm25_search
    ft_hits,           \* the hits rag() is about to return
    ft_outcome,        \* "running", "returned" or the name of the raised error
    \* ---- fetch_highlight_spans: the L1 children of one candidate ---
    sel_pc,            \* position inside one turn of the candidate loop
    sel_resp,          \* what _score_l1_for_parent returned for the parent
    sel_all,           \* l1_all after the sort
    sel_top,           \* l1_top of the candidate
    \* ---- _score_l0 / _score_l1_for_parent: primary and fallback queries ---
    fb_pc,             \* position inside fetch_highlight_spans
    fb_queries,        \* the engine requests issued so far: kind, filter, whether it raised
    fb_l0,             \* the hits _score_l0 returned
    fb_i,              \* position of the candidate loop in fb_l0
    fb_cands,          \* the candidates appended so far, each with the hits it was made of
    fb_outcome,        \* "running", "returned" or "raised"
    \* ---- Singleton.__call__ under threads -------------------------
    sg_pc,             \* position of each thread inside Singleton.__call__
    sg_key,            \* key = (cls, args, str(kwargs)) of each thread's call
    sg_instances,      \* cls._instances: per key, none or the cached instance
    sg_lock,           \* the thread holding LOCK, or 0
    sg_runs,           \* per key, how often the constructor body has been entered
    sg_made,           \* the instance a thread's constructor run has made
    sg_got,            \* what each call returned
    \* ---- _prepare_embedding_model under concurrent requests -------
    cr_pc,             \* position of each request inside _prepare_embedding_model
    cr_model,          \* emb_settings.name of each request
    cr_indices,        \* the indices of the engine: name and vector dims
    cr_embeddings,     \* self._embeddings: the model names cached
    \* ---- upload_file calls running at the same time ---------------
    cu_pc,             \* position of each concurrent upload_file call
    cu_docs,           \* the pages each of those calls parsed
    cu_bi,             \* the batch each of those calls writes next
    cu_main            \* the main index those calls share

ragVars == <<rag_pc, context, query, settings, history_messages, rewritten_query,
             rewrite_fault, searches, es_dense, hits_cosine, hits_bm25, rrf_c, hits, gen_res,
             rag_outcome, calls>>

ingVars == <<main_index, hl_index, up_pc, up_args, documents, batches, failed_batches,
             retries, bi, batch_log, stored, hl_fault, last, calls_left, faults_left>>

locVars == <<loc_pc, l0_hits, li, candidates, spans, loc_outcome>>

chVars == <<ch_docs, ch_params, ch_runs, ch_calls>>

nmVars == <<embeddings, es_indices, last_model>>

srVars == <<sr_pc, sr_chunks, sr_text_gen, sr_payload, sr_units, sr_idx>>

krVars == <<kr_pc, kr_res, kr_store, kr_cache, kr_out, kr_fault>>

ftVars == <<ft_pc, ft_req, ft_filters, ft_cosine, ft_bm25, ft_hits, ft_outcome>>

selVars == <<sel_pc, sel_resp, sel_all, sel_top>>

fbVars == <<fb_pc, fb_queries, fb_l0, fb_i, fb_cands, fb_outcome>>

sgVars == <<sg_pc, sg_key, sg_instances, sg_lock, sg_runs, sg_made, sg_got>>

crVars == <<cr_pc, cr_model, cr_indices, cr_embeddings>>

cuVars == <<cu_pc, cu_docs, cu_bi, cu_main>>

vars == <<ragVars, ingVars, locVars, chVars, nmVars, srVars, krVars, ftVars, selVars, fbVars, sgVars, crVars, cuVars>>

\* what the actions of one part leave alone
notRag == <<ingVars, locVars, chVars, nmVars, srVars, krVars, ftVars, selVars, fbVars, sgVars, crVars, cuVars>>
notIng == <<ragVars, locVars, chVars, nmVars, srVars, krVars, ftVars, selVars, fbVars, sgVars, crVars, cuVars>>
notLoc == <<ragVars, ingVars, chVars, nmVars, srVars, krVars, ftVars, selVars, fbVars, sgVars, crVars, cuVars>>
notCh == <<ragVars, ingVars, locVars, nmVars, srVars, krVars, ftVars, selVars, fbVars, sgVars, crVars, cuVars>>
notNm == <<ragVars, ingVars, locVars, chVars, srVars, krVars, ftVars, selVars, fbVars, sgVars, crVars, cuVars>>
notSr == <<ragVars, ingVars, locVars, chVars, nmVars, krVars, ftVars, selVars, fbVars, sgVars, crVars, cuVars>>
notKr == <<ragVars, ingVars, locVars, chVars, nmVars, srVars, ftVars, selVars, fbVars, sgVars, crVars, cuVars>>
notFt == <<ragVars, ingVars, locVars, chVars, nmVars, srVars, krVars, selVars, fbVars, sgVars, crVars, cuVars>>
notSel == <<ragVars, ingVars, locVars, chVars, nmVars, srVars, krVars, ftVars, fbVars, sgVars, crVars, cuVars>>
notFb == <<ragVars, ingVars, locVars, chVars, nmVars, srVars, krVars, ftVars, selVars, sgVars, crVars, cuVars>>
notSg == <<ragVars, ingVars, locVars, chVars, nmVars, srVars, krVars, ftVars, selVars, fbVars, crVars, cuVars>>
notCr == <<ragVars, ingVars, locVars, chVars, nmVars, srVars, krVars, ftVars, selVars, fbVars, sgVars, cuVars>>
notCu == <<ragVars, ingVars, locVars, chVars, nmVars, srVars, krVars, ftVars, selVars, fbVars, sgVars, crVars>>

None == "None"

(***************************************************************************)
(* Exact rationals <<numerator, denominator>>, denominator > 0.  The code  *)
(* uses IEEE doubles; for the ranks and scores of this model (ranks below  *)
(* 10, c up to 60, scores with two decimals) distinct rationals differ by  *)
(* far more than one ulp, and double addition is commutative, so the       *)
(* comparisons of the doubles are those of the rationals.                  *)
(***************************************************************************)
Rat(n, d) == <<n, d>>
RZero == Rat(0, 1)
RAdd(a, b) == Rat(a[1] * b[2] + b[1] * a[2], a[2] * b[2])
RMul(a, b) == Rat(a[1] * b[1], a[2] * b[2])
REq(a, b) == a[1] * b[2] = b[1] * a[2]
RLt(a, b) == a[1] * b[2] < b[1] * a[2]
RLe(a, b) == a[1] * b[2] <= b[1] * a[2]

\* ---------------------------------------------------------------- bounds
MaxHits == 3        \* longest ranked list handed to reciprocal_rank_fusion
MaxRagHits == 1     \* longest list a search returns inside rag()
MaxTurns == 1       \* longest conversation context
MaxPages == 3       \* most pages of an uploaded file
MaxUploads == 2     \* upload_file calls of one behaviour of SpecIngest
MaxFaults == 1      \* raising index requests of one behaviour of SpecIngest
BatchSize == 2      \* generate_batches(documents, 50), scaled to the page bound
MaxL0 == 2          \* most L0 hits the engine returns to _score_l0
MaxL1 == 4          \* most L1 hits the engine returns for one parent

\* ------------------------------------------------------- program constants
DefaultC == 60      \* reciprocal_rank_fusion(c=60)
MAX_RETRIES == 3
ScoreFloor == 5     \* (x["score"] or 0.0) >= 0.05, in hundredths
VoteCap == 5        \* min(l1_votes / 5.0, 1.0)

Ids == {"A", "B", "C", "D"}
RagIds == {"A", "B"}
Queries == {"q1", "q2"}

Range(s) == {s[i] : i \in 1..Len(s)}

\* Sequences over S of length at most n without a repeated element.
NoRepeatSeqs(S, n) ==
    {s \in UNION {[1..k -> S] : k \in 0..n} :
        \A i, j \in 1..Len(s) : i # j => s[i] # s[j]}

(***************************************************************************)
(* A hit (me.KBEntry) as a search returns it: its id, the engine's native  *)
(* relevance score and, as the identity of the Python object, the list it  *)
(* came from.  The engine returns hits best first: the native score falls  *)
(* with the position.                                                      *)
(***************************************************************************)
CosineHits(ids) ==
    [i \in 1..Len(ids) |-> [id |-> ids[i], score |-> Rat(10 - i, 10), list |-> "cosine"]]
Bm25Hits(ids) ==
    [i \in 1..Len(ids) |-> [id |-> ids[i], score |-> Rat(10 - i, 1), list |-> "bm25"]]

HitIds(hs) == [i \in 1..Len(hs) |-> hs[i].id]

\* ------------------------------------------------ reciprocal_rank_fusion
\* ranks[result.id][k] = rank + 1: the last occurrence of the id decides.
\* Ranks count from 1; 0 stands for the None of an id the list does not hold.
RankOf(results, doc_id) ==
    IF \E i \in 1..Len(results) : results[i].id = doc_id
    THEN CHOOSE i \in 1..Len(results) :
            /\ results[i].id = doc_id
            /\ \A j \in 1..Len(results) : results[j].id = doc_id => j <= i
    ELSE 0

\* Keys of the ranks dict in insertion order.
RECURSIVE RankKeys(_, _)
RankKeys(results, seen) ==
    IF results = <<>> THEN <<>>
    ELSE IF Head(results).id \in Range(seen)
         THEN RankKeys(Tail(results), seen)
         ELSE <<Head(results).id>> \o RankKeys(Tail(results), seen \o <<Head(results).id>>)

RankTermOffByOne(rank, c) == IF rank = 0 THEN RZero ELSE Rat(1, rank - 1 + c)
\* score += 1 / (rank + c) when the list contains the id
RankTerm(rank, c) == IF rank = 0 THEN RZero ELSE Rat(1, rank + c)

RrfScore(cosine_results, bm25_results, c, doc_id) ==
    RAdd(RAdd(RZero, RankTerm(RankOf(cosine_results, doc_id), c)),
         RankTerm(RankOf(bm25_results, doc_id), c))

\* sorted(..., reverse=True) is stable: an element goes behind every element
\* whose key is greater or equal.
RECURSIVE InsertAscending(_, _)
InsertAscending(sorted, x) ==
    IF sorted = <<>> THEN <<x>>
    ELSE IF RLt(x.score, Head(sorted).score) THEN <<x>> \o sorted
         ELSE <<Head(sorted)>> \o InsertAscending(Tail(sorted), x)

RECURSIVE InsertDescending(_, _)
InsertDescending(sorted, x) ==
    IF sorted = <<>> THEN <<x>>
    ELSE IF RLt(Head(sorted).score, x.score) THEN <<x>> \o sorted
         ELSE <<Head(sorted)>> \o InsertDescending(Tail(sorted), x)

RECURSIVE SortByScoreDescending(_)
SortByScoreDescending(items) ==
    IF items = <<>> THEN <<>>
    ELSE InsertDescending(SortByScoreDescending(SubSeq(items, 1, Len(items) - 1)),
                          items[Len(items)])

\* results = {r.id: r for r in cosine_results + bm25_results}: the last wins.
ResultObject(cosine_results, bm25_results, doc_id) ==
    LET all == cosine_results \o bm25_results
    IN  all[RankOf(all, doc_id)]

reciprocal_rank_fusion(cosine_results, bm25_results, c) ==
    LET keys == RankKeys(cosine_results \o bm25_results, <<>>)
        rrf_scores == [i \in 1..Len(keys) |->
                         [id |-> keys[i],
                          score |-> RrfScore(cosine_results, bm25_results, c, keys[i])]]
        reranked_docs == SortByScoreDescending(rrf_scores)
    IN  [i \in 1..Len(reranked_docs) |->
            [ResultObject(cosine_results, bm25_results, reranked_docs[i].id)
                EXCEPT !.score = reranked_docs[i].score]]

\* --------------------------------------------------------- idle values
NoCalls == [rewrite_lookup |-> 0, rewrite_gen |-> 0, rerank |-> 0, answer_gen |-> 0]

RagIdle ==
    /\ rag_pc = "idle"
    /\ context = <<>>
    /\ query = ""
    /\ settings = [reranking |-> FALSE, generation |-> FALSE]
    /\ history_messages = <<>>
    /\ rewritten_query = None
    /\ rewrite_fault = "none"
    /\ searches = <<>>
    /\ es_dense = <<>>
    /\ hits_cosine = <<>>
    /\ hits_bm25 = <<>>
    /\ rrf_c = DefaultC
    /\ hits = <<>>
    /\ gen_res = None
    /\ rag_outcome = "running"
    /\ calls = NoCalls

NoArgs == [kb_id |-> "", project_id |-> "", pages |-> 0, enable_highlights |-> FALSE]

\* hl_on of a call summary: per kb_id and project_id, whether the last call
\* that ran delete_kb on them was an upload with enable_highlights
NoHighlights == [k \in {"kb1"} \X {"", "p1"} |-> FALSE]

NoCall == [args |-> NoArgs, result |-> "none", value |-> <<>>, writes_ok |-> TRUE,
           dropped |-> FALSE, hl_fault |-> "none", kept |-> TRUE, count |-> 0,
           hl_on |-> NoHighlights]

CallIdle ==
    /\ up_pc = "idle"
    /\ up_args = NoArgs
    /\ documents = <<>>
    /\ batches = <<>>
    /\ failed_batches = <<>>
    /\ retries = 0
    /\ bi = 0
    /\ batch_log = <<>>
    /\ stored = {}
    /\ hl_fault = "none"

LocateIdle ==
    /\ loc_pc = "idle"
    /\ l0_hits = <<>>
    /\ li = 0
    /\ candidates = <<>>
    /\ spans = <<>>
    /\ loc_outcome = "running"

IngestIdle ==
    /\ main_index = {}
    /\ hl_index = {}
    /\ CallIdle
    /\ last = NoCall
    /\ calls_left = 0
    /\ faults_left = 0

ChunkIdle ==
    /\ ch_docs = <<>>
    /\ ch_params = <<>>
    /\ ch_runs = <<>>
    /\ ch_calls = 0

NamesIdle ==
    /\ embeddings = {}
    /\ es_indices = {}
    /\ last_model = <<>>

StreamIdle ==
    /\ sr_pc = "idle"
    /\ sr_chunks = <<>>
    /\ sr_text_gen = <<>>
    /\ sr_payload = <<>>
    /\ sr_units = <<>>
    /\ sr_idx = 0

KronosIdle ==
    /\ kr_pc = "idle"
    /\ kr_res = <<>>
    /\ kr_store = {}
    /\ kr_cache = {}
    /\ kr_out = <<>>
    /\ kr_fault = "none"

FilterIdle ==
    /\ ft_pc = "idle"
    /\ ft_req = <<>>
    /\ ft_filters = <<>>
    /\ ft_cosine = <<>>
    /\ ft_bm25 = <<>>
    /\ ft_hits = <<>>
    /\ ft_outcome = "idle"

SelectIdle ==
    /\ sel_pc = "idle"
    /\ sel_resp = <<>>
    /\ sel_all = <<>>
    /\ sel_top = <<>>

FallbackIdle ==
    /\ fb_pc = "idle"
    /\ fb_queries = <<>>
    /\ fb_l0 = <<>>
    /\ fb_i = 0
    /\ fb_cands = <<>>
    /\ fb_outcome = "idle"

SingletonIdle ==
    /\ sg_pc = <<>>
    /\ sg_key = <<>>
    /\ sg_instances = <<>>
    /\ sg_lock = 0
    /\ sg_runs = <<>>
    /\ sg_made = <<>>
    /\ sg_got = <<>>

CreateIdle ==
    /\ cr_pc = <<>>
    /\ cr_model = <<>>
    /\ cr_indices = {}
    /\ cr_embeddings = {}

ConcurrentIdle ==
    /\ cu_pc = <<>>
    /\ cu_docs = <<>>
    /\ cu_bi = <<>>
    /\ cu_main = {}

NotRagIdle == IngestIdle /\ LocateIdle /\ ChunkIdle /\ NamesIdle /\ StreamIdle /\ KronosIdle /\ FilterIdle /\ SelectIdle /\ FallbackIdle /\ SingletonIdle /\ CreateIdle /\ ConcurrentIdle
NotIngestIdle == RagIdle /\ LocateIdle /\ ChunkIdle /\ NamesIdle /\ StreamIdle /\ KronosIdle /\ FilterIdle /\ SelectIdle /\ FallbackIdle /\ SingletonIdle /\ CreateIdle /\ ConcurrentIdle
NotLocateIdle == RagIdle /\ IngestIdle /\ ChunkIdle /\ NamesIdle /\ StreamIdle /\ KronosIdle /\ FilterIdle /\ SelectIdle /\ FallbackIdle /\ SingletonIdle /\ CreateIdle /\ ConcurrentIdle
NotChunkIdle == RagIdle /\ IngestIdle /\ LocateIdle /\ NamesIdle /\ StreamIdle /\ KronosIdle /\ FilterIdle /\ SelectIdle /\ FallbackIdle /\ SingletonIdle /\ CreateIdle /\ ConcurrentIdle
NotNamesIdle == RagIdle /\ IngestIdle /\ LocateIdle /\ ChunkIdle /\ StreamIdle /\ KronosIdle /\ FilterIdle /\ SelectIdle /\ FallbackIdle /\ SingletonIdle /\ CreateIdle /\ ConcurrentIdle
NotStreamIdle == RagIdle /\ IngestIdle /\ LocateIdle /\ ChunkIdle /\ NamesIdle /\ KronosIdle /\ FilterIdle /\ SelectIdle /\ FallbackIdle /\ SingletonIdle /\ CreateIdle /\ ConcurrentIdle
NotKronosIdle == RagIdle /\ IngestIdle /\ LocateIdle /\ ChunkIdle /\ NamesIdle /\ StreamIdle /\ FilterIdle /\ SelectIdle /\ FallbackIdle /\ SingletonIdle /\ CreateIdle /\ ConcurrentIdle
NotFilterIdle == RagIdle /\ IngestIdle /\ LocateIdle /\ ChunkIdle /\ NamesIdle /\ StreamIdle /\ KronosIdle /\ SelectIdle /\ FallbackIdle /\ SingletonIdle /\ CreateIdle /\ ConcurrentIdle
NotSelectIdle == RagIdle /\ IngestIdle /\ LocateIdle /\ ChunkIdle /\ NamesIdle /\ StreamIdle /\ KronosIdle /\ FilterIdle /\ FallbackIdle /\ SingletonIdle /\ CreateIdle /\ ConcurrentIdle
NotFallbackIdle == RagIdle /\ IngestIdle /\ LocateIdle /\ ChunkIdle /\ NamesIdle /\ StreamIdle /\ KronosIdle /\ FilterIdle /\ SelectIdle /\ SingletonIdle /\ CreateIdle /\ ConcurrentIdle
NotSingletonIdle == RagIdle /\ IngestIdle /\ LocateIdle /\ ChunkIdle /\ NamesIdle /\ StreamIdle /\ KronosIdle /\ FilterIdle /\ SelectIdle /\ FallbackIdle /\ CreateIdle /\ ConcurrentIdle
NotCreateIdle == RagIdle /\ IngestIdle /\ LocateIdle /\ ChunkIdle /\ NamesIdle /\ StreamIdle /\ KronosIdle /\ FilterIdle /\ SelectIdle /\ FallbackIdle /\ SingletonIdle /\ ConcurrentIdle
NotConcurrentIdle == RagIdle /\ IngestIdle /\ LocateIdle /\ ChunkIdle /\ NamesIdle /\ StreamIdle /\ KronosIdle /\ FilterIdle /\ SelectIdle /\ FallbackIdle /\ SingletonIdle /\ CreateIdle

\* ------------------------------------------------------------- SpecRRF
\* reciprocal_rank_fusion on every pair of ranked lists within the bounds.
InitRRF ==
    /\ rag_pc = "rrf_call"
    /\ context = <<>>
    /\ query = ""
    /\ settings = [reranking |-> FALSE, generation |-> FALSE]
    /\ history_messages = <<>>
    /\ rewritten_query = None
    /\ rewrite_fault = "none"
    /\ searches = <<>>
    /\ es_dense = <<>>
    /\ \E ids \in NoRepeatSeqs(Ids, MaxHits) : hits_cosine = CosineHits(ids)
    /\ \E ids \in NoRepeatSeqs(Ids, MaxHits) : hits_bm25 = Bm25Hits(ids)
    /\ rrf_c \in {1, DefaultC}
    /\ hits = <<>>
    /\ gen_res = None
    /\ rag_outcome = "running"
    /\ calls = NoCalls
    /\ NotRagIdle

FuseCall ==
    /\ rag_pc = "rrf_call"
    /\ hits' = reciprocal_rank_fusion(hits_cosine, hits_bm25, rrf_c)
    /\ rag_pc' = "rrf_done"
    /\ UNCHANGED notRag
    /\ UNCHANGED <<context, query, settings, history_messages, rewritten_query,
                   rewrite_fault, searches, es_dense, hits_cosine, hits_bm25, rrf_c, gen_res,
                   rag_outcome, calls>>

NextRRF == FuseCall

SpecRRF == InitRRF /\ [][NextRRF]_vars

\* --------------------------------------------------------------- rag()
\* Texts of a conversation turn: blank, or text with surrounding whitespace.
TurnTexts == {" ", "hi "}
\* str.strip()
Strip(s) == IF s = " " THEN "" ELSE IF s = "hi " THEN "hi" ELSE s

Turns == [user_query : TurnTexts, system_response : TurnTexts]
Contexts == UNION {[1..k -> Turns] : k \in 0..MaxTurns}

RECURSIVE process_context(_)
process_context(ctx) ==
    IF ctx = <<>> THEN <<>>
    ELSE LET turn == Head(ctx)
             uq == Strip(turn.user_query)
             sr == Strip(turn.system_response)
         IN  (IF uq # "" THEN <<[role |-> "user", content |-> uq]>> ELSE <<>>)
             \o (IF sr # "" THEN <<[role |-> "assistant", content |-> sr]>> ELSE <<>>)
             \o process_context(Tail(ctx))

(***************************************************************************)
(* rewrite_query.  fault is the step of the try block that raises:         *)
(* "prompt" (build_prompt_rewrite / build_messages), "lookup"              *)
(* (LF.get_model), "generate" (model.chat_completion) or "none";           *)
(* completion is the text the model returns.  The result tells what the    *)
(* function returns, whether an exception leaves it, and how often the     *)
(* model was looked up and invoked.                                        *)
(***************************************************************************)
RewriteFaults == {"none", "prompt", "lookup", "generate"}

RewriteTry(q, fault, completion, guarded) ==
    [result |-> IF fault = "none" THEN completion ELSE IF guarded THEN q ELSE None,
     raised |-> fault # "none" /\ ~guarded,
     lookup |-> IF fault = "prompt" THEN 0 ELSE 1,
     gen    |-> IF fault \in {"none", "generate"} THEN 1 ELSE 0]

rewrite_query_no_fast_path(q, history, fault, completion) ==
    RewriteTry(q, fault, completion, TRUE)

rewrite_query_unguarded(q, history, fault, completion) ==
    IF history = <<>>
    THEN [result |-> q, raised |-> FALSE, lookup |-> 0, gen |-> 0]
    ELSE RewriteTry(q, fault, completion, FALSE)

rewrite_query(q, history, fault, completion) ==
    IF history = <<>>
    THEN [result |-> q, raised |-> FALSE, lookup |-> 0, gen |-> 0]
    ELSE RewriteTry(q, fault, completion, TRUE)

\* VS.knn_search on the engine's answer: zero hits raise DBRecordNotFound.
knn_search_lenient(res_hits) == [raised |-> "none", hits |-> res_hits]

knn_search(res_hits) ==
    IF Len(res_hits) = 0
    THEN [raised |-> "DBRecordNotFound", hits |-> <<>>]
    ELSE [raised |-> "none", hits |-> res_hits]

\* VS.bm25_search on the engine's answer: returned as it is.
bm25_search(res_hits) == [raised |-> "none", hits |-> res_hits]

InitRag ==
    /\ rag_pc = "rewrite"
    /\ context \in Contexts
    /\ query \in Queries
    /\ settings \in [reranking : BOOLEAN, generation : BOOLEAN]
    /\ history_messages = <<>>
    /\ rewritten_query = None
    /\ rewrite_fault = "none"
    /\ searches = <<>>
    /\ es_dense = <<>>
    /\ hits_cosine = <<>>
    /\ hits_bm25 = <<>>
    /\ rrf_c = DefaultC
    /\ hits = <<>>
    /\ gen_res = None
    /\ rag_outcome = "running"
    /\ calls = NoCalls
    /\ NotRagIdle

\* rag.py 52-59: process_context, then rewrite_query
RewriteQuery ==
    /\ rag_pc = "rewrite"
    /\ \E fault \in RewriteFaults, completion \in Queries \cup {"standalone"} :
          LET h == process_context(context)
              r == rewrite_query(query, h, fault, completion)
          IN  /\ history_messages' = h
              /\ rewrite_fault' = IF h = <<>> THEN "none" ELSE fault
              /\ calls' = [calls EXCEPT !.rewrite_lookup = @ + r.lookup,
                                        !.rewrite_gen = @ + r.gen]
              /\ rewritten_query' = r.result
              /\ IF r.raised
                 THEN rag_pc' = "done" /\ rag_outcome' = "RewriteError"
                 ELSE rag_pc' = "knn" /\ UNCHANGED rag_outcome
    /\ UNCHANGED notRag
    /\ UNCHANGED <<context, query, settings, searches, es_dense, hits_cosine,
                   hits_bm25, rrf_c, hits, gen_res>>

\* rag.py 61-68
KnnSearch ==
    /\ rag_pc = "knn"
    /\ \E ids \in NoRepeatSeqs(RagIds, MaxRagHits) :
          LET r == knn_search(CosineHits(ids))
          IN  /\ es_dense' = CosineHits(ids)
              /\ searches' = Append(searches, [kind |-> "knn", query |-> rewritten_query])
              /\ hits_cosine' = r.hits
              /\ IF r.raised # "none"
                 THEN rag_pc' = "done" /\ rag_outcome' = r.raised
                 ELSE rag_pc' = "bm25" /\ UNCHANGED rag_outcome
    /\ UNCHANGED notRag
    /\ UNCHANGED <<context, query, settings, history_messages, rewritten_query,
                   rewrite_fault, hits_bm25, rrf_c, hits, gen_res, calls>>

\* rag.py 70-77
Bm25Search ==
    /\ rag_pc = "bm25"
    /\ \E ids \in NoRepeatSeqs(RagIds, MaxRagHits) :
          LET r == bm25_search(Bm25Hits(ids))
          IN  /\ searches' = Append(searches, [kind |-> "bm25", query |-> rewritten_query])
              /\ hits_bm25' = r.hits
              /\ IF r.raised # "none"
                 THEN rag_pc' = "done" /\ rag_outcome' = r.raised
                 ELSE rag_pc' = "fuse" /\ UNCHANGED rag_outcome
    /\ UNCHANGED notRag
    /\ UNCHANGED <<context, query, settings, history_messages, rewritten_query,
                   rewrite_fault, es_dense, hits_cosine, rrf_c, hits, gen_res, calls>>

\* rag.py 79-80
Fuse ==
    /\ rag_pc = "fuse"
    /\ hits' = reciprocal_rank_fusion(hits_cosine, hits_bm25, rrf_c)
    /\ rag_pc' = "rerank"
    /\ UNCHANGED notRag
    /\ UNCHANGED <<context, query, settings, history_messages, rewritten_query,
                   rewrite_fault, searches, es_dense, hits_cosine, hits_bm25, rrf_c,
                   gen_res, rag_outcome, calls>>

\* rag.py 82-87: the reranker answers with positions of the fused list,
\* best first, at most k of them; a failure of the reranker propagates.
Rerank ==
    /\ rag_pc = "rerank"
    /\ \/ /\ settings.reranking
          /\ \E ids \in NoRepeatSeqs(1..Len(hits), Len(hits)) :
                hits' = [i \in 1..Len(ids) |-> hits[ids[i]]]
          /\ calls' = [calls EXCEPT !.rerank = @ + 1]
          /\ rag_pc' = "generate"
          /\ UNCHANGED rag_outcome
       \/ /\ settings.reranking
          /\ calls' = [calls EXCEPT !.rerank = @ + 1]
          /\ rag_pc' = "done"
          /\ rag_outcome' = "RerankError"
          /\ UNCHANGED hits
       \/ /\ ~settings.reranking
          /\ rag_pc' = "generate"
          /\ UNCHANGED <<hits, calls, rag_outcome>>
    /\ UNCHANGED notRag
    /\ UNCHANGED <<context, query, settings, history_messages, rewritten_query,
                   rewrite_fault, searches, es_dense, hits_cosine, hits_bm25, rrf_c,
                   gen_res>>

\* rag.py 89-101: a failure of the generation propagates.
Generate ==
    /\ rag_pc = "generate"
    /\ \/ /\ settings.generation
          /\ calls' = [calls EXCEPT !.answer_gen = @ + 1]
          /\ gen_res' = "answer"
          /\ rag_outcome' = "returned"
       \/ /\ settings.generation
          /\ calls' = [calls EXCEPT !.answer_gen = @ + 1]
          /\ rag_outcome' = "GenerationError"
          /\ UNCHANGED gen_res
       \/ /\ ~settings.generation
          /\ gen_res' = None
          /\ rag_outcome' = "returned"
          /\ UNCHANGED calls
    /\ rag_pc' = "done"
    /\ UNCHANGED notRag
    /\ UNCHANGED <<context, query, settings, history_messages, rewritten_query,
                   rewrite_fault, searches, es_dense, hits_cosine, hits_bm25, rrf_c,
                   hits>>

NextRag == RewriteQuery \/ KnnSearch \/ Bm25Search \/ Fuse \/ Rerank \/ Generate

SpecRag == InitRag /\ [][NextRag]_vars

\* ---------------------------------------------------- upload_file
KbIds == {"kb1"}
\* a knowledge base no call of the behaviour names
OtherKb == "kb2"
\* "" is the project_id the API passes by default: falsy in the filters
ProjectIds == {"", "p1"}

Min(a, b) == IF a < b THEN a ELSE b

\* A passage of the main index.  The index gives every written document an
\* identity of its own; (batch_id, retries, page) is one, as a batch is
\* written once per round.
Passage(kb_id, project_id, page, batch_id, r) ==
    [kb_id |-> kb_id, project_id |-> project_id, page |-> page,
     batch_id |-> batch_id, retries |-> r]

\* A hierarchical chunk of the highlight index; its _id is the chunk_id,
\* which (source_document_id, level, offsets) decide: one L0 and one L1 chunk
\* stand for the chunks of a page.
HlChunk(kb_id, project_id, page, level) ==
    [kb_id |-> kb_id, project_id |-> project_id, page |-> page, chunk_level |-> level]

\* delete_kb: the query both delete_by_query calls use
KbQuery(d, kb_id, project_id) ==
    /\ d.kb_id = kb_id
    /\ project_id # "" => d.project_id = project_id

\* hl_on after a call whose delete_kb ran with these arguments: the query
\* matches every project of kb_id when project_id is empty
HlOnAfter(hl_on, args) ==
    [k \in DOMAIN hl_on |->
        IF k[1] # args.kb_id THEN hl_on[k]
        ELSE IF k[2] = args.project_id THEN args.enable_highlights
        ELSE IF args.project_id = "" THEN FALSE
        ELSE hl_on[k]]

\* a delete request that stops before the documents of page 1
DeleteAllButFirstPage(index, kb_id, project_id) ==
    {d \in index : ~KbQuery(d, kb_id, project_id) \/ d.page = 1}
DeleteNothing(index, kb_id, project_id) == index
\* es.delete_by_query(index=..., query=query)
DeleteByKbQuery(index, kb_id, project_id) ==
    {d \in index : ~KbQuery(d, kb_id, project_id)}

\* generate_batches(iterable, n)
generate_batches(iterable, n) ==
    [k \in 1..((Len(iterable) + n - 1) \div n) |->
        SubSeq(iterable, (k - 1) * n + 1, Min(k * n, Len(iterable)))]

\* str(uuid.uuid4()) for k batches: identifiers no indexed document carries
UsedBatchIds == {d.batch_id : d \in main_index}
RECURSIVE FreshIds(_, _)
FreshIds(k, used) ==
    IF k = 0 THEN <<>>
    ELSE LET id == CHOOSE i \in 1..(Cardinality(used) + 1) : i \notin used
         IN  <<id>> \o FreshIds(k - 1, used \cup {id})

\* _count_uploaded_docs(bid)
CountUploadedDocs(bid) == Cardinality({d \in main_index : d.batch_id = bid})

\* a _delete_batch that removes nothing
DeleteBatchNone(index, bid) == index
\* _delete_batch(bid)
DeleteBatch(index, bid) == {d \in index : d.batch_id # bid}

BatchDocs(batch, r) ==
    {Passage(up_args.kb_id, up_args.project_id, batch.pages[i], batch.id, r) :
        i \in 1..Len(batch.pages)}

(***************************************************************************)
(* What one ElasticsearchStore.from_documents call can leave behind:       *)
(* "ok" commits the batch; the call can also raise after committing        *)
(* nothing, a part, or all of the batch.                                   *)
(***************************************************************************)
WriteOutcomes(batch, r) ==
    {[raised |-> FALSE, written |-> BatchDocs(batch, r)]}
    \cup {[raised |-> TRUE, written |-> w] : w \in SUBSET BatchDocs(batch, r)}

RetriesExhaustedLate(r) == r > MAX_RETRIES + 1
\* if retries > MAX_RETRIES: return
RetriesExhausted(r) == r > MAX_RETRIES

KbPassages(index, kb_id, project_id) ==
    {d \in index : d.kb_id = kb_id /\ d.project_id = project_id}

\* the number of documents of the index with that kb_id
CountKb(index, kb_id) == Cardinality({d \in index : d.kb_id = kb_id})

(***************************************************************************)
(* The record kept of one batch: how many writes were attempted, how many  *)
(* of them raised, whether every raising write committed nothing, whether  *)
(* the last write raised, whether the batch is still due a write (its last *)
(* write raised and no count has found it complete since), how many counts *)
(* were taken before retries and whether each of them saw 0 documents.     *)
(***************************************************************************)
NewLog(bid) ==
    [id |-> bid, attempts |-> 0, failures |-> 0, clean |-> TRUE, last_raised |-> FALSE,
     due |-> FALSE, counts |-> 0, counts_zero |-> TRUE]

LogWrite(log, o) ==
    [log EXCEPT !.attempts = @ + 1,
                !.failures = IF o.raised THEN @ + 1 ELSE @,
                !.clean = @ /\ (o.raised => o.written = {}),
                !.last_raised = o.raised,
                !.due = o.raised]

LogCount(log, seen, size) ==
    [log EXCEPT !.counts = @ + 1, !.counts_zero = @ /\ seen = 0,
                !.due = @ /\ seen # size]

AllWritesOk == \A b \in 1..Len(batch_log) : batch_log[b].failures = 0

\* A batch given up: it is still due a write and no round is left for it.
Dropped(log) == log.due /\ up_pc \in {"highlights", "return"}

\* The end of an upload_file call: what is kept of it, and the call's own
\* variables back at their idle value.
Finish(args, result, value, fault) ==
    /\ last' = [args |-> args, result |-> result, value |-> value,
                writes_ok |-> AllWritesOk,
                dropped |-> \E b \in 1..Len(batch_log) : Dropped(batch_log[b]),
                hl_fault |-> fault,
                kept |-> main_index = stored,
                count |-> CountKb(main_index, args.kb_id),
                hl_on |-> IF result = "ParseError" THEN last.hl_on
                          ELSE HlOnAfter(last.hl_on, args)]
    /\ up_pc' = "idle"
    /\ up_args' = NoArgs
    /\ documents' = <<>>
    /\ batches' = <<>>
    /\ failed_batches' = <<>>
    /\ retries' = 0
    /\ bi' = 0
    /\ batch_log' = <<>>
    /\ stored' = {}
    /\ hl_fault' = "none"

\* SpecIngest: upload_file calls one after the other, from empty indices.
InitIngest ==
    /\ NotIngestIdle
    /\ main_index = {}
    /\ hl_index = {}
    /\ CallIdle
    /\ last = NoCall
    /\ calls_left = MaxUploads
    /\ faults_left = MaxFaults

\* vector_db.py 365-391: prepare the model, parse the file, set the metadata.
\* A parser that raises leaves upload_file before anything is deleted.
UploadFile ==
    /\ up_pc = "idle"
    /\ calls_left > 0
    /\ calls_left' = calls_left - 1
    /\ \E kb \in KbIds, proj \in ProjectIds, hl \in BOOLEAN :
          \/ /\ \E n \in 0..MaxPages :
                   /\ up_args' = [kb_id |-> kb, project_id |-> proj, pages |-> n,
                                  enable_highlights |-> hl]
                   /\ documents' = [i \in 1..n |-> [page |-> i, batch_id |-> 0, retries |-> 0]]
             /\ up_pc' = "delete_main"
             /\ UNCHANGED <<last, batches, failed_batches, retries, bi, batch_log, stored,
                            hl_fault>>
          \/ Finish([kb_id |-> kb, project_id |-> proj, pages |-> 0,
                     enable_highlights |-> hl], "ParseError", <<>>, "none")
    /\ UNCHANGED <<main_index, hl_index, faults_left>>
    /\ UNCHANGED notIng

\* vector_db.py 394, 725-729: delete_kb, the main indices
DeleteKbMain ==
    /\ up_pc = "delete_main"
    /\ main_index' = DeleteByKbQuery(main_index, up_args.kb_id, up_args.project_id)
    /\ up_pc' = "delete_hl"
    /\ UNCHANGED <<hl_index, up_args, documents, batches, failed_batches, retries, bi,
                   batch_log, stored, hl_fault, last, calls_left, faults_left>>
    /\ UNCHANGED notIng

\* a delete_kb that leaves the highlight indices alone
KeepHighlights(index, kb_id, project_id) == index
\* es.delete_by_query(index=f"{self.index_name_highlights}_*", query=query)
DeleteHighlights(index, kb_id, project_id) == DeleteByKbQuery(index, kb_id, project_id)

\* vector_db.py 394, 730-734: delete_kb, the highlight indices
DeleteKbHighlights ==
    /\ up_pc = "delete_hl"
    /\ hl_index' = DeleteHighlights(hl_index, up_args.kb_id, up_args.project_id)
    /\ up_pc' = "batches"
    /\ UNCHANGED <<main_index, up_args, documents, batches, failed_batches, retries, bi,
                   batch_log, stored, hl_fault, last, calls_left, faults_left>>
    /\ UNCHANGED notIng

\* vector_db.py 397-398: the batches with their fresh ids, retries = 0
MakeBatches ==
    /\ up_pc = "batches"
    /\ LET parts == generate_batches([i \in 1..Len(documents) |-> documents[i].page], BatchSize)
           ids == FreshIds(Len(parts), UsedBatchIds)
       IN  /\ batches' = [k \in 1..Len(parts) |-> [id |-> ids[k], pages |-> parts[k]]]
           /\ batch_log' = [k \in 1..Len(parts) |-> NewLog(ids[k])]
    /\ retries' = 0
    /\ up_pc' = "store"
    /\ UNCHANGED <<main_index, hl_index, up_args, documents, failed_batches, bi,
                   stored, hl_fault, last, calls_left, faults_left>>
    /\ UNCHANGED notIng

\* vector_db.py 207-220: entry of _embed_and_store
StoreEnter ==
    /\ up_pc = "store"
    /\ IF batches = <<>> \/ RetriesExhausted(retries)
       THEN /\ up_pc' = "highlights"
            /\ stored' = main_index
            /\ UNCHANGED <<failed_batches, bi>>
       ELSE /\ up_pc' = "batch"
            /\ failed_batches' = <<>>
            /\ bi' = 1
            /\ UNCHANGED stored
    /\ UNCHANGED <<main_index, hl_index, up_args, documents, batches, retries,
                   batch_log, hl_fault, last, calls_left, faults_left>>
    /\ UNCHANGED notIng

LogOf(bid) == CHOOSE k \in 1..Len(batch_log) : batch_log[k].id = bid

\* vector_db.py 228-239: on a retry round, skip a batch that is fully present,
\* else delete what is there of it; then tag the documents
BatchCheck ==
    /\ up_pc = "batch"
    /\ bi <= Len(batches)
    /\ LET batch == batches[bi]
           seen == CountUploadedDocs(batch.id)
       IN  IF retries > 0
           THEN /\ batch_log' = [batch_log EXCEPT ![LogOf(batch.id)] = LogCount(@, seen, Len(batch.pages))]
                /\ IF seen = Len(batch.pages)
                   THEN /\ bi' = bi + 1
                        /\ UNCHANGED <<main_index, documents, up_pc>>
                   ELSE /\ main_index' = DeleteBatch(main_index, batch.id)
                        /\ documents' = [i \in 1..Len(documents) |->
                              IF documents[i].page \in Range(batch.pages)
                              THEN [documents[i] EXCEPT !.batch_id = batch.id, !.retries = retries]
                              ELSE documents[i]]
                        /\ up_pc' = "write"
                        /\ UNCHANGED bi
           ELSE /\ documents' = [i \in 1..Len(documents) |->
                      IF documents[i].page \in Range(batch.pages)
                      THEN [documents[i] EXCEPT !.batch_id = batch.id, !.retries = retries]
                      ELSE documents[i]]
                /\ up_pc' = "write"
                /\ UNCHANGED <<main_index, batch_log, bi>>
    /\ UNCHANGED <<hl_index, up_args, batches, failed_batches, retries, stored,
                   hl_fault, last, calls_left, faults_left>>
    /\ UNCHANGED notIng

\* vector_db.py 241-251: the write of one batch
WriteBatch ==
    /\ up_pc = "write"
    /\ LET batch == batches[bi]
       IN  \E o \in WriteOutcomes(batch, retries) :
              /\ o.raised => faults_left > 0
              /\ faults_left' = IF o.raised THEN faults_left - 1 ELSE faults_left
              /\ main_index' = main_index \cup o.written
              /\ batch_log' = [batch_log EXCEPT ![LogOf(batch.id)] = LogWrite(@, o)]
              /\ failed_batches' = IF o.raised THEN Append(failed_batches, batch)
                                   ELSE failed_batches
    /\ bi' = bi + 1
    /\ up_pc' = "batch"
    /\ UNCHANGED <<hl_index, up_args, documents, batches, retries, stored, hl_fault,
                   last, calls_left>>
    /\ UNCHANGED notIng

NextRoundAll(all, failed) == all
\* self._embed_and_store(batches=failed_batches, ..., retries=retries + 1)
NextRoundBatches(all, failed) == failed

\* vector_db.py 253-254: refresh, then the next round with the failed batches
RoundEnd ==
    /\ up_pc = "batch"
    /\ bi > Len(batches)
    /\ batches' = NextRoundBatches(batches, failed_batches)
    /\ retries' = retries + 1
    /\ up_pc' = "store"
    /\ UNCHANGED <<main_index, hl_index, up_args, documents, failed_batches, bi,
                   batch_log, stored, hl_fault, last, calls_left, faults_left>>
    /\ UNCHANGED notIng

\* The chunks create_hierarchical_chunks makes of the documents, in order
ChunkSeq ==
    [k \in 1..(2 * Len(documents)) |->
        HlChunk(up_args.kb_id, up_args.project_id, documents[(k + 1) \div 2].page,
                IF k % 2 = 1 THEN "L0" ELSE "L1")]

HlFaults == {"none", "chunking", "embedding", "bulk", "refresh"}

\* The chunks a run of _index_highlighting leaves in the index when the
\* given step raises: none if the chunking raises, all if the last refresh
\* does, those of the bulk requests that went through otherwise.
HlWritten(fault) ==
    IF fault = "chunking" THEN {{}}
    ELSE IF fault \in {"none", "refresh"} THEN {Range(ChunkSeq)}
    ELSE {Range(SubSeq(ChunkSeq, 1, k)) : k \in 0..(Len(ChunkSeq) - 1)}

HighlightsUnguarded(fault) == fault # "none"
\* try: self._index_highlighting(...) except Exception: logger.warning(...)
HighlightsRaise(fault) == FALSE

\* The value upload_file returns: KBMetadata of documents[0].metadata
\* (a call that raises returns none: << >>)
ReturnValue ==
    <<[kb_id |-> up_args.kb_id, project_id |-> up_args.project_id, page |-> documents[1].page]>>

\* vector_db.py 400-405: the highlight side pipeline
IndexHighlighting ==
    /\ up_pc = "highlights"
    /\ IF up_args.enable_highlights /\ documents # <<>>
       THEN \E fault \in HlFaults : \E w \in HlWritten(fault) :
               /\ fault # "none" => faults_left > 0
               /\ faults_left' = IF fault # "none" THEN faults_left - 1 ELSE faults_left
               /\ hl_index' = hl_index \cup w
               /\ IF HighlightsRaise(fault)
                  THEN Finish(up_args, "HighlightError", <<>>, fault)
                  ELSE /\ up_pc' = "return"
                       /\ hl_fault' = fault
                       /\ UNCHANGED <<last, up_args, documents, batches, failed_batches,
                                      retries, bi, batch_log, stored>>
       ELSE /\ up_pc' = "return"
            /\ UNCHANGED <<hl_index, hl_fault, last, up_args, documents, batches,
                           failed_batches, retries, bi, batch_log, stored, faults_left>>
    /\ UNCHANGED <<main_index, calls_left>>
    /\ UNCHANGED notIng

\* vector_db.py 407: the metadata of the first document
Return ==
    /\ up_pc = "return"
    /\ IF documents = <<>>
       THEN Finish(up_args, "IndexError", <<>>, hl_fault)
       ELSE Finish(up_args, "returned", ReturnValue, hl_fault)
    /\ UNCHANGED <<main_index, hl_index, calls_left, faults_left>>
    /\ UNCHANGED notIng

\* vector_db.py 715-734: a delete_kb call of its own (kb deletion endpoint);
\* with raise_not_found it raises after both delete requests
DeleteKb ==
    /\ up_pc = "idle"
    /\ calls_left > 0
    /\ calls_left' = calls_left - 1
    /\ \E kb \in KbIds, proj \in ProjectIds :
          /\ main_index' = DeleteByKbQuery(main_index, kb, proj)
          /\ hl_index' = DeleteHighlights(hl_index, kb, proj)
          /\ last' = [args |-> [kb_id |-> kb, project_id |-> proj, pages |-> 0,
                                enable_highlights |-> FALSE],
                      result |-> "deleted", value |-> <<>>, writes_ok |-> TRUE,
                      dropped |-> FALSE, hl_fault |-> "none", kept |-> TRUE,
                      count |-> CountKb(main_index', kb),
                      hl_on |-> HlOnAfter(last.hl_on,
                                          [kb_id |-> kb, project_id |-> proj, pages |-> 0,
                                           enable_highlights |-> FALSE])]
    /\ UNCHANGED <<up_pc, up_args, documents, batches, failed_batches, retries, bi,
                   batch_log, stored, hl_fault, faults_left>>
    /\ UNCHANGED notIng

NextIngest ==
    \/ UploadFile \/ DeleteKbMain \/ DeleteKbHighlights \/ MakeBatches \/ StoreEnter
    \/ BatchCheck \/ WriteBatch \/ RoundEnd \/ IndexHighlighting \/ Return \/ DeleteKb

SpecIngest == InitIngest /\ [][NextIngest]_vars

(***************************************************************************)
(* SpecStore: one upload_file call with any number of raising requests, on *)
(* indices that hold an earlier upload (none if it had no page) of the      *)
(* knowledge base or of another one.                                       *)
(***************************************************************************)
EarlierPassages(kb, n) ==
    LET parts == generate_batches([i \in 1..n |-> i], BatchSize)
    IN  UNION {{Passage(kb, "p1", parts[k][i], k, 0) : i \in 1..Len(parts[k])} :
                  k \in 1..Len(parts)}

InitStore ==
    /\ NotIngestIdle
    /\ \E kb \in KbIds \cup {OtherKb}, n \in 0..MaxPages :
          /\ main_index = EarlierPassages(kb, n)
          /\ hl_index = {HlChunk(kb, "p1", i, lv) : i \in 1..n, lv \in {"L0", "L1"}}
    /\ CallIdle
    /\ last = NoCall
    /\ calls_left = 1
    /\ faults_left = (MAX_RETRIES + 1) * MaxPages + 1

SpecStore == InitStore /\ [][NextIngest]_vars

(***************************************************************************)
(* fetch_highlight_spans.  Scores are in hundredths; a score the engine    *)
(* leaves out (None) is << >>, a score v is <<v>>.                         *)
(***************************************************************************)
RECURSIVE GCD(_, _)
GCD(a, b) == IF b = 0 THEN a ELSE GCD(b, a % b)

Abs(n) == IF n < 0 THEN -n ELSE n

\* the same rational in lowest terms
RNorm(a) ==
    LET g == GCD(Abs(a[1]), a[2])
    IN  Rat(a[1] \div g, a[2] \div g)

\* script score of an L0 chunk: 0.4 * _score + 0.6 * cosine + 1.0
L0Scores == {<<>>, <<150>>}
\* score of an L1 chunk: none (counts as 0.0), below the floor, above it
L1Scores == {<<>>, <<2>>, <<50>>, <<90>>}

\* x["score"] or 0.0
ScoreOr0(sc) == IF sc = <<>> THEN 0 ELSE sc[1]

\* What es.search can answer _score_l0 with: up to MaxL0 L0 chunks of the page
L0Responses ==
    UNION {{[i \in 1..n |-> [id |-> i, score |-> sc[i]]] : sc \in [1..n -> L0Scores]} :
              n \in 0..MaxL0}

\* What es.search can answer _score_l1_for_parent with: up to MaxL1 L1 chunks
\* whose parent_chunk_id is parent_id (the filter of the search)
L1Responses(parent_id) ==
    UNION {{[i \in 1..n |-> [chunk_level |-> "L1", parent |-> parent_id, score |-> sc[i]]] :
               sc \in [1..n -> L1Scores]} : n \in 0..MaxL1}

\* l1_all.sort(key=lambda x: (x["score"] or 0.0), reverse=True): stable
InsertL1(sorted, x) ==
    LET p == Cardinality({i \in 1..Len(sorted) : ScoreOr0(sorted[i].score) >= ScoreOr0(x.score)})
    IN  SubSeq(sorted, 1, p) \o <<x>> \o SubSeq(sorted, p + 1, Len(sorted))

RECURSIVE SortL1(_)
SortL1(s) ==
    IF s = <<>> THEN <<>>
    ELSE InsertL1(SortL1(SubSeq(s, 1, Len(s) - 1)), s[Len(s)])

Max(a, b) == IF a > b THEN a ELSE b

RECURSIVE SumScores(_)
SumScores(s) == IF s = <<>> THEN 0 ELSE ScoreOr0(s[1].score) + SumScores(Tail(s))

\* a selection that keeps every child for the floor to judge
TopHalfAll(l1_all) == l1_all
\* half = max(1, len(l1_all) // 2); l1_top = l1_all[:half]
TopHalf(l1_all) == SubSeq(l1_all, 1, Min(Len(l1_all), Max(1, Len(l1_all) \div 2)))

\* l1_top = [x for x in l1_top if (x["score"] or 0.0) >= 0.05]
AboveFloor(l1) == SelectSeq(l1, LAMBDA x : ScoreOr0(x.score) >= ScoreFloor)

\* (0.5 * l0_score) + (0.3 * l1_avg) + (0.2 * min(l1_votes / 5.0, 1.0))
Combined(l0_score, l1_avg, l1_votes) ==
    LET vote == IF l1_votes >= VoteCap THEN Rat(1, 1) ELSE Rat(l1_votes, VoteCap)
    IN  RNorm(RAdd(RNorm(RAdd(RMul(Rat(1, 2), l0_score), RMul(Rat(3, 10), l1_avg))),
                   RMul(Rat(1, 5), vote)))

\* if l1_all: l1_top = the top half above the floor; else: l1_top = []
L1Top(l1_all) == IF l1_all # <<>> THEN AboveFloor(TopHalf(l1_all)) ELSE <<>>

\* (sum((x["score"] or 0.0) for x in l1_top) / l1_votes) if l1_votes > 0 else 0.0
L1Avg(l1_top) ==
    IF Len(l1_top) > 0 THEN Rat(SumScores(l1_top), 100 * Len(l1_top)) ELSE RZero

\* (h["_score"] - 1.0) if h.get("_score") is not None else 0.0
L0Score(h) == IF h.score # <<>> THEN Rat(h.score[1] - 100, 100) ELSE RZero

\* candidates.append({...})
CandidateDict(h, l0_score, l1_top, l1_avg) ==
    [l0_id |-> h.id, l0_score |-> l0_score, l1_top |-> l1_top, l1_votes |-> Len(l1_top),
     l1_avg |-> l1_avg, combined |-> Combined(l0_score, l1_avg, Len(l1_top))]

CandidateOfTop(h, l1_top) == CandidateDict(h, L0Score(h), l1_top, L1Avg(l1_top))

\* The candidate the loop body makes of the L0 hit h and the L1 answer
Candidate(h, resp) == CandidateOfTop(h, L1Top(SortL1(resp)))

\* candidates.sort(key=lambda c: c["combined"], reverse=True): stable
InsertCandidate(sorted, c) ==
    LET p == Cardinality({i \in 1..Len(sorted) : RLe(c.combined, sorted[i].combined)})
    IN  SubSeq(sorted, 1, p) \o <<c>> \o SubSeq(sorted, p + 1, Len(sorted))

RECURSIVE SortCandidates(_)
SortCandidates(s) ==
    IF s = <<>> THEN <<>>
    ELSE InsertCandidate(SortCandidates(SubSeq(s, 1, Len(s) - 1)), s[Len(s)])

LastOf(sorted) == sorted[Len(sorted)]
\* best = candidates[0]
BestOf(sorted) == sorted[1]

\* spans = [{... "score": best["combined"], "chunk_level": "L0"}] + best["l1_top"]
BuildSpans(best) ==
    <<[chunk_level |-> "L0", id |-> best.l0_id, score |-> best.combined]>> \o best.l1_top

InitLocate ==
    /\ NotLocateIdle
    /\ loc_pc = "score_l0"
    /\ l0_hits = <<>>
    /\ li = 0
    /\ candidates = <<>>
    /\ spans = <<>>
    /\ loc_outcome = "running"

\* vector_db.py 753-802: the script_score query; when it raises, the text
\* query, whose exception leaves fetch_highlight_spans
ScoreL0 ==
    /\ loc_pc = "score_l0"
    /\ \/ \* the answer of the first query, or of the second when the first raised
          \E resp \in L0Responses :
             /\ l0_hits' = resp
             /\ li' = 1
             /\ loc_pc' = "candidates"
             /\ UNCHANGED loc_outcome
       \/ \* both queries raised
          /\ loc_pc' = "done"
          /\ loc_outcome' = "raised"
          /\ UNCHANGED <<l0_hits, li>>
    /\ UNCHANGED <<candidates, spans>>
    /\ UNCHANGED notLoc

\* vector_db.py 934-969: one turn of the candidate loop; _score_l1_for_parent
\* (804-879) asks the KNN search and, when it raises, the script_score query
ScoreL1 ==
    /\ loc_pc = "candidates"
    /\ li <= Len(l0_hits)
    /\ \/ \* the answer of the first query, or of the second when the first raised
          \E resp \in L1Responses(l0_hits[li].id) :
             /\ candidates' = Append(candidates, Candidate(l0_hits[li], resp))
             /\ li' = li + 1
             /\ UNCHANGED <<loc_pc, loc_outcome>>
       \/ \* both queries raised
          /\ loc_pc' = "done"
          /\ loc_outcome' = "raised"
          /\ UNCHANGED <<li, candidates>>
    /\ UNCHANGED <<l0_hits, spans>>
    /\ UNCHANGED notLoc

\* vector_db.py 971-993
ReturnSpans ==
    /\ loc_pc = "candidates"
    /\ li > Len(l0_hits)
    /\ spans' = IF candidates = <<>> THEN <<>>
                ELSE BuildSpans(BestOf(SortCandidates(candidates)))
    /\ loc_pc' = "done"
    /\ loc_outcome' = "returned"
    /\ UNCHANGED <<l0_hits, li, candidates>>
    /\ UNCHANGED notLoc

NextLocate == ScoreL0 \/ ScoreL1 \/ ReturnSpans

SpecLocate == InitLocate /\ [][NextLocate]_vars

(***************************************************************************)
(* ragnarok/utils/highlight.py.  A text is a sequence of characters;       *)
(* positions count from 0 as in Python.                                    *)
(***************************************************************************)
Whitespace == {" ", "\n"}

\* s[a:b]
Slice(s, a, b) == SubSeq(s, a + 1, b)

SetMin(S) == CHOOSE x \in S : \A y \in S : x <= y
SetMax(S) == CHOOSE x \in S : \A y \in S : y <= x

\* s.strip()
StripText(s) ==
    LET solid == {i \in 1..Len(s) : s[i] \notin Whitespace}
    IN  IF solid = {} THEN <<>> ELSE SubSeq(s, SetMin(solid), SetMax(solid))

\* s.startswith(p)
StartsWith(s, p) == Len(p) <= Len(s) /\ SubSeq(s, 1, Len(p)) = p

\* text.find(sub, from): the first position at or after from, -1 if none
Find(text, sub, from) ==
    LET found == {i \in from..(Len(text) - Len(sub)) : Slice(text, i, i + Len(sub)) = sub}
    IN  IF found = {} THEN -1 ELSE SetMin(found)

\* text.split(sep)
RECURSIVE Split(_, _)
Split(text, sep) ==
    LET p == Find(text, sep, 0)
    IN  IF p = -1 THEN <<text>>
        ELSE <<Slice(text, 0, p)>> \o Split(Slice(text, p + Len(sep), Len(text)), sep)

\* sep.join(parts)
RECURSIVE Join(_, _)
Join(parts, sep) ==
    IF parts = <<>> THEN <<>>
    ELSE IF Len(parts) = 1 THEN parts[1]
    ELSE parts[1] \o sep \o Join(Tail(parts), sep)

\* out.append(x) if x else nothing
AppendIf(out, x) == IF x # <<>> THEN Append(out, x) ELSE out

(***************************************************************************)
(* split_text_simple.  The result is [diverges, out]: diverges says that   *)
(* the call never returns, out is the list it returns otherwise.           *)
(*                                                                         *)
(* The while loop (lines 60-67), for 0 <= overlap < chunk_size: as long as *)
(* end < n the next start is past the last one.  Once end = n the next     *)
(* start is n - overlap; if that is below n, every later turn has          *)
(* start = n - overlap and end = n again: the loop appends the same chunk  *)
(* forever.                                                                *)
(***************************************************************************)
WindowReturnsAtEnd(nxt, end, n) == nxt >= n \/ end = n
\* if start >= n: break  /  while start < n
WindowReturns(nxt, end, n) == nxt >= n

RECURSIVE Window(_, _, _, _, _)
Window(text, chunk_size, overlap, start, chunks) ==
    LET n == Len(text)
        end == Min(start + chunk_size, n)
        chunks2 == AppendIf(chunks, StripText(Slice(text, start, end)))
        nxt == IF overlap > 0 THEN end - overlap ELSE end
    IN  IF WindowReturns(nxt, end, n) THEN [diverges |-> FALSE, out |-> chunks2]
        ELSE IF end = n THEN [diverges |-> TRUE, out |-> <<>>]
        ELSE Window(text, chunk_size, overlap, nxt, chunks2)

\* full = part + (sep if i < len(parts) - 1 else ""), i counting from 1 here
FullPart(parts, i, sep) == parts[i] \o (IF i < Len(parts) THEN sep ELSE <<>>)

\* lines 37-54: the loop over the parts of text.split(sep).  subs[i] is the
\* result of split_text_simple(full, chunk_size, overlap, separators[1:]) for
\* the parts longer than chunk_size, the only ones line 47 is reached with.
RECURSIVE PackParts(_, _, _, _, _, _, _)
PackParts(parts, i, cur, out, sep, chunk_size, subs) ==
    IF i > Len(parts) THEN [diverges |-> FALSE, out |-> AppendIf(out, StripText(cur))]
    ELSE LET full == FullPart(parts, i, sep)
         IN  IF Len(cur) + Len(full) <= chunk_size
             THEN PackParts(parts, i + 1, cur \o full, out, sep, chunk_size, subs)
             ELSE LET out1 == AppendIf(out, StripText(cur))
                  IN  IF Len(full) > chunk_size
                      THEN IF subs[i].diverges THEN subs[i]
                           ELSE PackParts(parts, i + 1, <<>>, out1 \o subs[i].out, sep,
                                          chunk_size, subs)
                      ELSE PackParts(parts, i + 1, full, out1, sep, chunk_size, subs)

RECURSIVE split_text_simple(_, _, _, _)
split_text_simple(text, chunk_size, overlap, separators) ==
    IF Len(text) <= chunk_size
    THEN [diverges |-> FALSE, out |-> IF StripText(text) # <<>> THEN <<text>> ELSE <<>>]
    ELSE LET usable == {k \in 1..Len(separators) : Find(text, separators[k], 0) # -1}
         IN  IF usable # {}
             THEN LET sep == separators[SetMin(usable)]
                      parts == Split(text, sep)
                      subs == [i \in 1..Len(parts) |->
                                 IF Len(FullPart(parts, i, sep)) > chunk_size
                                 THEN split_text_simple(FullPart(parts, i, sep), chunk_size,
                                                        overlap, Tail(separators))
                                 ELSE [diverges |-> FALSE, out |-> <<>>]]
                  IN  PackParts(parts, 1, <<>>, <<>>, sep, chunk_size, subs)
             ELSE Window(text, chunk_size, overlap, 0, <<>>)

\* "SOURCE FILE:"
HeaderMark == <<"S", "O", "U", "R", "C", "E", " ", "F", "I", "L", "E", ":">>

RECURSIVE DropLeadingNewlines(_)
\* while result.startswith("\n\n\n"): result = result[1:]
DropLeadingNewlines(result) ==
    IF StartsWith(result, <<"\n", "\n", "\n">>) THEN DropLeadingNewlines(Tail(result))
    ELSE result

\* preprocess_text_for_chunking
preprocess_text_for_chunking(text) ==
    LET lines == Split(text, <<"\n">>)
        filtered == SelectSeq(lines, LAMBDA ln : ~StartsWith(StripText(ln), HeaderMark))
    IN  StripText(DropLeadingNewlines(Join(filtered, <<"\n">>)))

\* lines 135-146: the loop over enumerate(texts); i counts from 0
RECURSIVE PlaceChunks(_, _, _, _, _, _)
PlaceChunks(text, texts, i, current_pos, overlap, chunks) ==
    IF i >= Len(texts) THEN chunks
    ELSE LET tc == StripText(texts[i + 1])
             found == Find(text, tc, current_pos)
             start_pos == IF found = -1 THEN current_pos ELSE found
             end_pos == IF found = -1 THEN Min(current_pos + Len(tc), Len(text))
                        ELSE found + Len(tc)
         IN  IF tc = <<>> THEN PlaceChunks(text, texts, i + 1, current_pos, overlap, chunks)
             ELSE PlaceChunks(text, texts, i + 1, Max(0, end_pos - overlap), overlap,
                              Append(chunks, [text |-> tc, chunk_index |-> i,
                                              char_start |-> start_pos, char_end |-> end_pos]))

\* lines 131-147: the chunks of the pieces that split_text_simple returned
PlaceAll(text, texts, overlap) ==
    IF texts.diverges THEN texts
    ELSE [diverges |-> FALSE, out |-> PlaceChunks(text, texts.out, 0, 0, overlap, <<>>)]

\* create_chunks_from_text: [diverges, out]
create_chunks_from_text(text, chunk_size, overlap, separators) ==
    IF StripText(text) = <<>> THEN [diverges |-> FALSE, out |-> <<>>]
    ELSE PlaceAll(text, split_text_simple(text, chunk_size, overlap, separators), overlap)

\* make_chunk_id: f"{source_document_id}_{level}_{start}_{end}".  The document
\* id is a hex digest, so the four fields can be read back from the string:
\* the string is as good as the tuple.
\* an id that also carries the number of calls made so far
make_chunk_id_counted(source_document_id, level, start, end) ==
    <<source_document_id, level, start, end, ch_calls>>
make_chunk_id(source_document_id, level, start, end) ==
    <<source_document_id, level, start, end>>

\* lines 169-180: the L0 chunk of the output
L0Chunk(doc_id, l0_idx, l0) ==
    [text |-> l0.text, source_document_id |-> doc_id, chunk_level |-> "L0",
     chunk_index |-> l0_idx, char_start |-> l0.char_start, char_end |-> l0.char_end,
     chunk_id |-> make_chunk_id(doc_id, "L0", l0.char_start, l0.char_end),
     parent_chunk_id |-> <<>>]

\* an L1 chunk that keeps the offsets relative to its L0
L1ChunkRelative(doc_id, l0, l1_idx, l1) ==
    [text |-> l1.text, source_document_id |-> doc_id, chunk_level |-> "L1",
     chunk_index |-> l1_idx, char_start |-> l1.char_start, char_end |-> l1.char_end,
     chunk_id |-> make_chunk_id(doc_id, "L1", l1.char_start, l1.char_end),
     parent_chunk_id |-> make_chunk_id(doc_id, "L0", l0.char_start, l0.char_end)]
\* lines 191-208: the L1 chunk of the output, with absolute offsets
L1Chunk(doc_id, l0, l1_idx, l1) ==
    [text |-> l1.text, source_document_id |-> doc_id, chunk_level |-> "L1",
     chunk_index |-> l1_idx, char_start |-> l0.char_start + l1.char_start,
     char_end |-> l0.char_start + l1.char_end,
     chunk_id |-> make_chunk_id(doc_id, "L1", l0.char_start + l1.char_start,
                                l0.char_start + l1.char_end),
     parent_chunk_id |-> make_chunk_id(doc_id, "L0", l0.char_start, l0.char_end)]

\* lines 183-189: res or [the whole L0]
OrWholeL0(res, l0) ==
    IF res.diverges \/ res.out # <<>> THEN res
    ELSE [diverges |-> FALSE,
          out |-> <<[text |-> l0.text, char_start |-> 0, char_end |-> Len(l0.text)]>>]

\* lines 183-189: create_chunks_from_text(l0["text"], ...) or [the whole L0]
L1sOf(l0, p, separators) ==
    OrWholeL0(create_chunks_from_text(l0.text, p.l1_size, p.l1_overlap, separators), l0)

\* lines 191-208: the loop over enumerate(l1s); l1_idx counts from 0
RECURSIVE L1Chunks(_, _, _, _)
L1Chunks(doc_id, l0, l1s, l1_idx) ==
    IF l1_idx >= Len(l1s) THEN <<>>
    ELSE <<L1Chunk(doc_id, l0, l1_idx, l1s[l1_idx + 1])>> \o
         L1Chunks(doc_id, l0, l1s, l1_idx + 1)

\* lines 166-208: the loop over enumerate(l0s); l0_idx counts from 0
RECURSIVE ChunksOfL0s(_, _, _, _, _, _)

\* lines 167-208: one turn of that loop, l1s being the L1 pieces of l0
ChunksOfL0(doc_id, l0s, l0_idx, p, separators, out, l0, l1s) ==
    IF l1s.diverges THEN l1s
    ELSE ChunksOfL0s(doc_id, l0s, l0_idx + 1, p, separators,
                     Append(out, L0Chunk(doc_id, l0_idx, l0)) \o
                     L1Chunks(doc_id, l0, l1s.out, 0))

ChunksOfL0s(doc_id, l0s, l0_idx, p, separators, out) ==
    IF l0_idx >= Len(l0s) THEN [diverges |-> FALSE, out |-> out]
    ELSE ChunksOfL0(doc_id, l0s, l0_idx, p, separators, out, l0s[l0_idx + 1],
                    L1sOf(l0s[l0_idx + 1], p, separators))

\* lines 161-208: the loop over documents; d counts from 1 here
RECURSIVE ChunksOfDocs(_, _, _, _, _)

\* lines 162-208: one turn of that loop, l0s being the L0 pieces of the page
NextDoc(docs, d, p, separators, mine) ==
    IF mine.diverges THEN mine
    ELSE ChunksOfDocs(docs, d + 1, p, separators, mine.out)

ChunksOfDoc(docs, d, p, separators, out, l0s) ==
    IF l0s.diverges THEN l0s
    ELSE NextDoc(docs, d, p, separators,
                 ChunksOfL0s(docs[d].id, l0s.out, 0, p, separators, out))

ChunksOfDocs(docs, d, p, separators, out) ==
    IF d > Len(docs) THEN [diverges |-> FALSE, out |-> out]
    ELSE ChunksOfDoc(docs, d, p, separators, out,
                     create_chunks_from_text(preprocess_text_for_chunking(docs[d].text),
                                             p.l0_size, p.l0_overlap, separators))

\* create_hierarchical_chunks: [diverges, out]
create_hierarchical_chunks(docs, p, separators) ==
    ChunksOfDocs(docs, 1, p, separators, <<>>)

(***************************************************************************)
(* SpecChunk: runs of create_hierarchical_chunks on the page documents     *)
(* that _index_highlighting builds from the stored pages.                  *)
(***************************************************************************)
MaxText == 5
MaxCalls == 2

ChunkAlphabet == {"a", " ", "\n"}

\* page contents as the loaders hand them over
PageTexts == UNION {[1..n -> ChunkAlphabet] : n \in 0..MaxText}

SourceFile == <<"f">>
OtherFile == <<"g", "2">>

\* upload_file: f"SOURCE FILE: {source_file}\n\n"
Header(source_file) == HeaderMark \o <<" ">> \o source_file \o <<"\n", "\n">>

\* upload_file: doc.page_content = f"SOURCE FILE: {source_file}\n\n{doc.page_content}"
StoredText(source_file, content) == Header(source_file) \o content

\* _index_highlighting: md5 of f"{project_id}|{kb_id}|{source_file}|{page}",
\* taken as free of collisions
DocId(project_id, kb_id, source_file, page) == <<project_id, kb_id, source_file, page>>

\* _index_highlighting: the entry of page_docs for one stored page
PageDoc(source_file, page, content) ==
    [id |-> DocId("p1", "kb1", source_file, page), source_file |-> source_file,
     text |-> StoredText(source_file, content)]

\* upload_file: doc.metadata.get("page", 0) + 1 for a passage whose loader
\* sets no page (the splitter-made passages of a DOCX, HTML or TXT file, the
\* sheets of an XLSX file)
PageOfUnpaged == 0 + 1

\* another upload's passages, chunked between two runs on the same
\* documents: two passages of a text file, neither with a page of its own
OtherDocs ==
    <<PageDoc(OtherFile, PageOfUnpaged, <<"b", " ", "a", "\n", "b">>),
      PageDoc(OtherFile, PageOfUnpaged, <<"a", " ", "b", "\n", "a">>)>>

\* ["\n\n", "\n", ". ", ", ", " "]
Separators == << <<"\n", "\n">>, <<"\n">>, <<".", " ">>, <<",", " ">>, <<" ">> >>

\* sizes and overlaps with 0 <= overlap < size and the L1 size below the L0
\* size, as at the call in _index_highlighting (1200/300, 700/175)
ChunkParams ==
    {[l0_size |-> 4, l0_overlap |-> 1, l1_size |-> 2, l1_overlap |-> 0],
     [l0_size |-> 3, l0_overlap |-> 1, l1_size |-> 2, l1_overlap |-> 1],
     [l0_size |-> 3, l0_overlap |-> 0, l1_size |-> 2, l1_overlap |-> 0]}

InitChunk ==
    /\ NotChunkIdle
    /\ \E content \in PageTexts : ch_docs = <<PageDoc(SourceFile, 1, content)>>
    /\ ch_params \in ChunkParams
    /\ ch_runs = <<>>
    /\ ch_calls = 0

\* a call that never returns is the last step of its caller
ChunkReturned == \A r \in 1..Len(ch_runs) : ~ch_runs[r].diverges

\* hl.create_hierarchical_chunks(documents=page_docs, ...): the call with
\* its documents and what it returns
ChunkRun(docs, res) == [docs |-> docs, diverges |-> res.diverges, out |-> res.out]

\* _index_highlighting chunks the pages of this upload
ChunkDocs ==
    /\ ch_calls < MaxCalls
    /\ ChunkReturned
    /\ ch_runs' = Append(ch_runs, ChunkRun(ch_docs,
                     create_hierarchical_chunks(ch_docs, ch_params, Separators)))
    /\ ch_calls' = ch_calls + 1
    /\ UNCHANGED <<ch_docs, ch_params>>
    /\ UNCHANGED notCh

\* _index_highlighting chunks the passages of another upload
ChunkOther ==
    /\ ch_calls < MaxCalls
    /\ ChunkReturned
    /\ ch_runs' = Append(ch_runs, ChunkRun(OtherDocs,
                     create_hierarchical_chunks(OtherDocs, ch_params, Separators)))
    /\ ch_calls' = ch_calls + 1
    /\ UNCHANGED <<ch_docs, ch_params>>
    /\ UNCHANGED notCh

NextChunk == ChunkDocs \/ ChunkOther

SpecChunk == InitChunk /\ [][NextChunk]_vars

(***************************************************************************)
(* The spans of a page as the response carries them.                       *)
(***************************************************************************)
\* fetch_highlight_spans / _score_l1_for_parent: a span takes start, end and
\* text from the chunk's char_start, char_end and text
SpanOfChunk(c) ==
    [start |-> c.char_start, end |-> c.char_end, text |-> c.text,
     chunk_level |-> c.chunk_level, chunk_index |-> c.chunk_index]

\* _build_highlight_group_for_hit: header_len
header_len(source_file) == Len(Header(source_file))

\* _build_highlight_group_for_hit: s_local["start"] and s_local["end"]
ShiftSpan(s, source_file) ==
    [s EXCEPT !.start = @ + header_len(source_file), !.end = @ + header_len(source_file)]

(***************************************************************************)
(* Index names: _normalize_model_name, get_index_name,                     *)
(* get_index_name_highlights and _prepare_embedding_model.  A name is a    *)
(* sequence of characters.                                                 *)
(***************************************************************************)
MaxName == 2
MaxModels == 2

\* ES_INDEX_REPLACE_CHARS = ' "#*+,./:<>?\\_|'
ES_INDEX_REPLACE_CHARS ==
    {" ", "\"", "#", "*", "+", ",", ".", "/", ":", "<", ">", "?", "\\", "_", "|"}

\* ES_INDEX_TRANSLATOR on one character
ES_INDEX_TRANSLATOR(c) == IF c \in ES_INDEX_REPLACE_CHARS THEN "-" ELSE c

\* str.lower on one character; "A" is the upper-case letter of NameAlphabet
Lower(c) == IF c = "A" THEN "a" ELSE c

\* "text-embedding-3-large"
TextEmbedding3Large ==
    <<"t", "e", "x", "t", "-", "e", "m", "b", "e", "d", "d", "i", "n", "g", "-", "3", "-",
      "l", "a", "r", "g", "e">>

\* "openai-3-large"
OpenAi3Large == <<"o", "p", "e", "n", "a", "i", "-", "3", "-", "l", "a", "r", "g", "e">>

\* _normalize_model_name
normalize_model_name(model_name) ==
    IF model_name = TextEmbedding3Large THEN OpenAi3Large
    ELSE [i \in 1..Len(model_name) |-> Lower(ES_INDEX_TRANSLATOR(model_name[i]))]

\* CONFIG.ES_INDEX_EMBEDDINGS and CONFIG.ES_INDEX_HIGHLIGHT_CHUNKS, each taken
\* as one token in front of the characters of the normalised name
index_name == <<"ragnarok-develop-kb">>
index_name_highlights == <<"ragnarok-develop-highlight-chunks">>

\* f"{self.index_name}_{self._normalize_model_name(model_name)}"
get_index_name(model_name) == index_name \o <<"_">> \o normalize_model_name(model_name)

\* f"{self.index_name_highlights}_{self._normalize_model_name(model_name)}"
get_index_name_highlights(model_name) ==
    index_name_highlights \o <<"_">> \o normalize_model_name(model_name)

NameAlphabet == {"a", "A", "-", "/"}

\* emb_settings.name: any string
ModelNames ==
    UNION {[1..n -> NameAlphabet] : n \in 1..MaxName} \cup {TextEmbedding3Large, OpenAi3Large}

\* the dimension lc.get_embeddings reports for a model
Dims == {2, 3}

\* _prepare_embedding_index: create the index unless one of that name exists
prepare_embedding_index(indices, name, dim) ==
    IF \E i \in indices : i.name = name THEN indices
    ELSE indices \cup {[name |-> name, dims |-> dim]}

InitNames ==
    /\ NotNamesIdle
    /\ embeddings = {}
    /\ es_indices = {}
    /\ last_model = <<>>

\* _prepare_embedding_model(emb_settings)
PrepareEmbeddingModel ==
    \E name \in ModelNames, dim \in Dims :
        /\ last_model' = <<name>>
        /\ IF \E m \in embeddings : m.name = name
           THEN UNCHANGED <<embeddings, es_indices>>
           ELSE /\ Cardinality(embeddings) < MaxModels
                /\ es_indices' = prepare_embedding_index(
                                     prepare_embedding_index(es_indices, get_index_name(name), dim),
                                     get_index_name_highlights(name), dim)
                /\ embeddings' = embeddings \cup {[name |-> name, dim |-> dim]}
        /\ UNCHANGED notNm

NextNames == PrepareEmbeddingModel

SpecNames == InitNames /\ [][NextNames]_vars

(***************************************************************************)
(* ragnarok/api/nlp.py: rag_pipeline_stream and _streamed_rag_response.    *)
(***************************************************************************)
MaxFragments == 3
MaxChunks == 2

\* what chat_completion_stream yields: chunk.choices[0].delta.content, a
\* string or None (<<>>)
Fragments == {<<>>, <<"">>, <<"a">>, <<"b">>}

FragmentSeqs == UNION {[1..n -> Fragments] : n \in 0..MaxFragments}

\* the hits of rag(...): me.KBEntry with the metadata of their passage
StreamHit(i) == [id |-> i, kb_id |-> "kb1", page |-> i, source_file |-> "f"]

StreamHits == {[i \in 1..n |-> StreamHit(i)] : n \in 0..MaxChunks}

\* mar.RAGTopMatch(kb_id=top.source.metadata.kb_id, ...)
RAGTopMatch(top) == [kb_id |-> top.kb_id, page |-> top.page, source_file |-> top.source_file]

\* _build_highlight_group_for_hit(hit=top) if payload.return_highlights else
\* None, then [top_highlight] if top_highlight else []
StreamHighlights(chunks, payload) ==
    IF payload.return_highlights THEN <<[hit |-> chunks[1].id]>> ELSE <<>>

\* chunks if payload.return_matched_chunks else None
StreamMatchedChunks(chunks, payload) ==
    IF payload.return_matched_chunks THEN <<chunks>> ELSE <<>>

\* the first unit of _streamed_rag_response
MetadataUnit(chunks, payload) ==
    [chunk_index |-> -1, is_last_chunk |-> FALSE, text |-> "",
     top_match |-> RAGTopMatch(chunks[1]),
     highlights |-> StreamHighlights(chunks, payload),
     matched_chunks |-> StreamMatchedChunks(chunks, payload)]

\* text or ""
TextOrEmpty(text) == IF text = <<>> THEN "" ELSE text[1]

\* a unit numbered one too high
TextUnitFromOne(idx, text) ==
    [chunk_index |-> idx + 1, is_last_chunk |-> text = <<>>, text |-> TextOrEmpty(text)]
\* {"chunk_index": idx, "is_last_chunk": text is None, "text": text or ""}
TextUnit(idx, text) ==
    [chunk_index |-> idx, is_last_chunk |-> text = <<>>, text |-> TextOrEmpty(text)]

InitStream ==
    /\ NotStreamIdle
    /\ sr_pc = "rag"
    /\ sr_chunks \in StreamHits
    /\ sr_text_gen \in {<<>>} \cup {<<g>> : g \in FragmentSeqs}
    /\ sr_payload \in [return_highlights : BOOLEAN, return_matched_chunks : BOOLEAN]
    /\ sr_units = <<>>
    /\ sr_idx = 0

\* rag_pipeline_stream up to the StreamingResponse: top = chunks[0] raises
\* IndexError when rag returned no hit, and no stream is opened
StreamOpen ==
    /\ sr_pc = "rag"
    /\ sr_pc' = IF sr_chunks = <<>> THEN "raised" ELSE "metadata"
    /\ UNCHANGED <<sr_chunks, sr_text_gen, sr_payload, sr_units, sr_idx>>
    /\ UNCHANGED notSr

\* _streamed_rag_response: the first yield, then return if text_gen is None
YieldMetadata ==
    /\ sr_pc = "metadata"
    /\ sr_units' = Append(sr_units, MetadataUnit(sr_chunks, sr_payload))
    /\ sr_pc' = IF sr_text_gen = <<>> THEN "done" ELSE "text"
    /\ UNCHANGED <<sr_chunks, sr_text_gen, sr_payload, sr_idx>>
    /\ UNCHANGED notSr

\* one turn of for idx, text in enumerate(text_gen)
YieldText ==
    /\ sr_pc = "text"
    /\ sr_idx < Len(sr_text_gen[1])
    /\ sr_units' = Append(sr_units, TextUnit(sr_idx, sr_text_gen[1][sr_idx + 1]))
    /\ sr_idx' = sr_idx + 1
    /\ UNCHANGED <<sr_pc, sr_chunks, sr_text_gen, sr_payload>>
    /\ UNCHANGED notSr

\* text_gen is exhausted
StreamEnd ==
    /\ sr_pc = "text"
    /\ sr_idx = Len(sr_text_gen[1])
    /\ sr_pc' = "done"
    /\ UNCHANGED <<sr_chunks, sr_text_gen, sr_payload, sr_units, sr_idx>>
    /\ UNCHANGED notSr

\* the request to the model, made when text_gen is first advanced, or the
\* connection behind it raises
StreamBreaks ==
    /\ sr_pc = "text"
    /\ sr_idx < Len(sr_text_gen[1])
    /\ sr_pc' = "broken"
    /\ UNCHANGED <<sr_chunks, sr_text_gen, sr_payload, sr_units, sr_idx>>
    /\ UNCHANGED notSr

NextStream == StreamOpen \/ YieldMetadata \/ YieldText \/ StreamEnd \/ StreamBreaks

SpecStream == InitStream /\ [][NextStream]_vars

(***************************************************************************)
(* kronos/api/nlp.py: rag_pipeline, rag_pipeline_stream and the shaping of *)
(* the response with the KB name and description of the document store.    *)
(***************************************************************************)
MaxMatched == 2
MaxTextUnits == 2

StoreKbs == {"kb1", "kb2"}

\* res.matched_chunks: None (<<>>) or <<the kb ids of the matched chunks>>
MatchedChunks == {<<>>} \cup {<<ids>> : ids \in UNION {[1..n -> StoreKbs] : n \in 0..MaxMatched}}

\* the record of kb_id in the document store
KbRecord(kb_id) == [name |-> <<"name", kb_id>>, description |-> <<"description", kb_id>>]

\* get_kb_bulk(kb_ids, fields): raises DBRecordNotFound unless every id is found
get_kb_bulk_raises(kb_ids, store) == \E i \in 1..Len(kb_ids) : kb_ids[i] \notin store

\* get_kb_cached(kb_id): the cached record, else get_kb, which raises
\* DBRecordNotFound when there is none
get_kb_cached_raises(kb_id, store, cache) == kb_id \notin cache /\ kb_id \notin store

\* _update_matched_chunks: returns its argument when that is None or empty
update_matched_chunks_raises(matched_chunks, store) ==
    /\ matched_chunks # <<>>
    /\ matched_chunks[1] # <<>>
    /\ get_kb_bulk_raises(matched_chunks[1], store)

update_matched_chunks(matched_chunks) ==
    IF matched_chunks = <<>> \/ matched_chunks[1] = <<>> THEN matched_chunks
    ELSE <<[i \in 1..Len(matched_chunks[1]) |->
              [kb_id |-> matched_chunks[1][i], name |-> KbRecord(matched_chunks[1][i]).name,
               description |-> KbRecord(matched_chunks[1][i]).description]]>>

\* _update_top_match
update_top_match(top_match) ==
    [kb_id |-> top_match, name |-> KbRecord(top_match).name,
     description |-> KbRecord(top_match).description]

\* the lookup that raises while matched_chunks and top_match are shaped, in
\* the order of the two calls
ShapingFault(res, store, cache) ==
    IF update_matched_chunks_raises(res.matched_chunks, store) THEN "get_kb_bulk"
    ELSE IF get_kb_cached_raises(res.top_match, store, cache) THEN "get_kb_cached"
    ELSE "none"

\* mak.RAGResponse(generated_text=..., matched_chunks=..., top_match=...)
RAGResponse(res) ==
    [generated_text |-> res.text_units,
     matched_chunks |-> update_matched_chunks(res.matched_chunks),
     top_match |-> update_top_match(res.top_match)]

\* the unit with chunk_index -1 after its matched_chunks and top_match are
\* replaced
ShapedMetadataUnit(res) ==
    [chunk_index |-> -1,
     matched_chunks |-> update_matched_chunks(res.matched_chunks),
     top_match |-> update_top_match(res.top_match)]

InitKronos ==
    /\ NotKronosIdle
    /\ kr_pc \in {"rag", "stream"}
    /\ kr_res \in [matched_chunks : MatchedChunks, top_match : StoreKbs,
                   text_units : 0..MaxTextUnits]
    /\ kr_store \in SUBSET StoreKbs
    /\ kr_cache \in SUBSET StoreKbs
    /\ kr_out = <<>>
    /\ kr_fault = "none"

\* rag_pipeline after query_rag returned: mak.RAGResponse(...) is built and
\* returned, or the exception of a lookup leaves the endpoint
RagPipelineKronos ==
    /\ kr_pc = "rag"
    /\ kr_fault' = ShapingFault(kr_res, kr_store, kr_cache)
    /\ IF kr_fault' = "none"
       THEN /\ kr_out' = <<RAGResponse(kr_res)>>
            /\ kr_cache' = kr_cache \cup {kr_res.top_match}
            /\ kr_pc' = "returned"
       ELSE /\ kr_pc' = "raised"
            /\ UNCHANGED <<kr_out, kr_cache>>
    /\ UNCHANGED <<kr_res, kr_store>>
    /\ UNCHANGED notKr

\* _streamed_rag_response on the unit with chunk_index -1: the unit is shaped
\* and yielded, or the exception of a lookup ends the generator
StreamMetadataKronos ==
    /\ kr_pc = "stream"
    /\ kr_out = <<>>
    /\ kr_fault' = ShapingFault(kr_res, kr_store, kr_cache)
    /\ IF kr_fault' = "none"
       THEN /\ kr_out' = <<ShapedMetadataUnit(kr_res)>>
            /\ kr_cache' = kr_cache \cup {kr_res.top_match}
            /\ kr_pc' = "stream"
       ELSE /\ kr_pc' = "raised"
            /\ UNCHANGED <<kr_out, kr_cache>>
    /\ UNCHANGED <<kr_res, kr_store>>
    /\ UNCHANGED notKr

\* _streamed_rag_response on a later unit: yield f"{chunk}\n"
StreamTextKronos ==
    /\ kr_pc = "stream"
    /\ kr_out # <<>>
    /\ Len(kr_out) <= kr_res.text_units
    /\ kr_out' = Append(kr_out, [chunk_index |-> Len(kr_out) - 1])
    /\ UNCHANGED <<kr_pc, kr_res, kr_store, kr_cache, kr_fault>>
    /\ UNCHANGED notKr

\* text_gen is exhausted
StreamEndKronos ==
    /\ kr_pc = "stream"
    /\ Len(kr_out) = 1 + kr_res.text_units
    /\ kr_pc' = "returned"
    /\ UNCHANGED <<kr_res, kr_store, kr_cache, kr_out, kr_fault>>
    /\ UNCHANGED notKr

NextKronos ==
    RagPipelineKronos \/ StreamMetadataKronos \/ StreamTextKronos \/ StreamEndKronos

SpecKronos == InitKronos /\ [][NextKronos]_vars

\* ------------------------------------------- knn_search / bm25_search
MaxKbIds == 2        \* longest kb_ids list of a request
MaxFilterHits == 2   \* settings.k_emb, settings.k_bm25: most hits of one search

\* {"term": {"metadata.<field>": value}}
Term(field, value) == [kind |-> "term", field |-> field, value |-> value, should |-> <<>>]
\* {"bool": {"should": [...]}}
BoolShould(terms) == [kind |-> "bool", field |-> "", value |-> "", should |-> terms]

\* metadata of the indexed passages; the keyword fields hold the exact value
Passages ==
    [id \in Ids |->
        CASE id = "A" -> [project_id |-> "p1", kb_id |-> "kb1", language |-> "en"]
          [] id = "B" -> [project_id |-> "p1", kb_id |-> "kb2", language |-> "cs"]
          [] id = "C" -> [project_id |-> "p2", kb_id |-> "kb1", language |-> "en"]
          [] OTHER    -> [project_id |-> "p1", kb_id |-> "kb3", language |-> "en"]]

FilterProjects == {"p1", "p2"}
FilterKbIds == {"kb1", "kb2"}
\* kb_ids: None and [] are both falsy and stand as the empty list here
KbIdLists == UNION {[1..k -> FilterKbIds] : k \in 0..MaxKbIds}
\* ftr_custom: raw clauses of the caller (None stands as the empty list)
CustomFilters ==
    {<<>>,
     <<Term("language", "en")>>,
     <<Term("language", "en"), Term("kb_id", "kb1")>>,
     <<BoolShould(<<Term("kb_id", "kb3"), Term("project_id", "p2")>>)>>}

\* ftr_should = [{"term": {"metadata.kb_id": _id}} for _id in kb_ids]
KbTerms(kb_ids) == [i \in 1..Len(kb_ids) |-> Term("kb_id", kb_ids[i])]

\* vector_db.py 529-537: the filter list of knn_search
knn_filter(project_id, kb_ids, ftr_custom) ==
    LET ftr == <<Term("project_id", project_id)>>
        with_kb == IF kb_ids # <<>> THEN Append(ftr, BoolShould(KbTerms(kb_ids))) ELSE ftr
    IN  IF ftr_custom # <<>> THEN with_kb \o ftr_custom ELSE with_kb

\* a bm25_search that leaves the kb_ids clause out
bm25_filter_no_kb(project_id, kb_ids, ftr_custom) ==
    <<Term("project_id", project_id)>> \o ftr_custom

\* vector_db.py 576-584: the filter list of bm25_search
bm25_filter(project_id, kb_ids, ftr_custom) ==
    LET ftr == <<Term("project_id", project_id)>>
        with_kb == IF kb_ids # <<>> THEN Append(ftr, BoolShould(KbTerms(kb_ids))) ELSE ftr
    IN  IF ftr_custom # <<>> THEN with_kb \o ftr_custom ELSE with_kb

\* a term clause on a keyword field matches the exact value
TermMatches(passage, clause) == passage[clause.field] = clause.value

\* a bool clause of should clauses alone matches when one of them does
ClauseMatches(passage, clause) ==
    IF clause.kind = "term"
    THEN TermMatches(passage, clause)
    ELSE \E i \in 1..Len(clause.should) : TermMatches(passage, clause.should[i])

\* every clause of a filter list has to match
FilterMatches(passage, ftr) == \A i \in 1..Len(ftr) : ClauseMatches(passage, ftr[i])

\* what the engine may answer to a search under a filter: at most size
\* passages, each matching the filter (the ranking is the engine's)
EngineAnswers(ftr, size) ==
    NoRepeatSeqs({id \in Ids : FilterMatches(Passages[id], ftr)}, size)

InitFilter ==
    /\ ft_pc = "knn"
    /\ ft_req \in [project_id : FilterProjects, kb_ids : KbIdLists,
                   ftr_custom : CustomFilters, reranking : BOOLEAN]
    /\ ft_filters = <<>>
    /\ ft_cosine = <<>>
    /\ ft_bm25 = <<>>
    /\ ft_hits = <<>>
    /\ ft_outcome = "running"
    /\ NotFilterIdle

\* rag.py 61-68, vector_db.py 527-550
FilterKnnSearch ==
    /\ ft_pc = "knn"
    /\ LET ftr == knn_filter(ft_req.project_id, ft_req.kb_ids, ft_req.ftr_custom)
       IN  /\ ft_filters' = Append(ft_filters, [kind |-> "knn", filter |-> ftr])
           /\ \E ids \in EngineAnswers(ftr, MaxFilterHits) :
                 LET r == knn_search(CosineHits(ids))
                 IN  /\ ft_cosine' = r.hits
                     /\ IF r.raised # "none"
                        THEN ft_pc' = "done" /\ ft_outcome' = r.raised
                        ELSE ft_pc' = "bm25" /\ UNCHANGED ft_outcome
    /\ UNCHANGED <<ft_req, ft_bm25, ft_hits>>
    /\ UNCHANGED notFt

\* rag.py 70-77, vector_db.py 576-597
FilterBm25Search ==
    /\ ft_pc = "bm25"
    /\ LET ftr == bm25_filter(ft_req.project_id, ft_req.kb_ids, ft_req.ftr_custom)
       IN  /\ ft_filters' = Append(ft_filters, [kind |-> "bm25", filter |-> ftr])
           /\ \E ids \in EngineAnswers(ftr, MaxFilterHits) :
                 ft_bm25' = bm25_search(Bm25Hits(ids)).hits
    /\ ft_pc' = "fuse"
    /\ UNCHANGED <<ft_req, ft_cosine, ft_hits, ft_outcome>>
    /\ UNCHANGED notFt

\* rag.py 79
FilterFuse ==
    /\ ft_pc = "fuse"
    /\ ft_hits' = reciprocal_rank_fusion(ft_cosine, ft_bm25, DefaultC)
    /\ ft_pc' = "rerank"
    /\ UNCHANGED <<ft_req, ft_filters, ft_cosine, ft_bm25, ft_outcome>>
    /\ UNCHANGED notFt

\* rag.py 82-87, 101: hits = [hits[idx] for idx in ids], then the return
FilterRerank ==
    /\ ft_pc = "rerank"
    /\ IF ft_req.reranking
       THEN \E ids \in NoRepeatSeqs(1..Len(ft_hits), Len(ft_hits)) :
               ft_hits' = [i \in 1..Len(ids) |-> ft_hits[ids[i]]]
       ELSE UNCHANGED ft_hits
    /\ ft_pc' = "done"
    /\ ft_outcome' = "returned"
    /\ UNCHANGED <<ft_req, ft_filters, ft_cosine, ft_bm25>>
    /\ UNCHANGED notFt

NextFilter == FilterKnnSearch \/ FilterBm25Search \/ FilterFuse \/ FilterRerank

SpecFilter == InitFilter /\ [][NextFilter]_vars

\* ------------------------- fetch_highlight_spans: l1_top of one candidate
\* scores of L1 children: none, below the floor, the floor, above it
SelectScores == {<<>>, <<2>>, <<5>>, <<30>>, <<80>>, <<90>>}

\* What _score_l1_for_parent can return: up to MaxL1 L1 children, in the
\* order of the engine's answer
SelectResponses ==
    UNION {{[i \in 1..n |-> [chunk_level |-> "L1", id |-> i, score |-> sc[i]]] :
               sc \in [1..n -> SelectScores]} : n \in 0..MaxL1}

InitSelect ==
    /\ sel_pc = "sort"
    /\ sel_resp \in SelectResponses
    /\ sel_all = sel_resp
    /\ sel_top = <<>>
    /\ NotSelectIdle

\* vector_db.py 947: l1_all.sort(...)
SortChildren ==
    /\ sel_pc = "sort"
    /\ sel_all' = SortL1(sel_all)
    /\ sel_pc' = "keep"
    /\ UNCHANGED <<sel_resp, sel_top>>
    /\ UNCHANGED notSel

\* vector_db.py 949-955: the top half above the floor
KeepTop ==
    /\ sel_pc = "keep"
    /\ sel_top' = L1Top(sel_all)
    /\ sel_pc' = "done"
    /\ UNCHANGED <<sel_resp, sel_all>>
    /\ UNCHANGED notSel

NextSelect == SortChildren \/ KeepTop

SpecSelect == InitSelect /\ [][NextSelect]_vars

\* ------------- _score_l0 / _score_l1_for_parent: primary and fallback
MaxFbL0 == 1         \* most L0 hits of one answer (l0_size = 5, scaled)
MaxFbL1 == 12        \* most L1 hits of one answer (max(k, 20), scaled)

FbIds == <<"c1", "c2", "c3">>

\* base_filter of fetch_highlight_spans
base_filter ==
    <<Term("kb_id", "kb1"), Term("project_id", "p1"), Term("source_file", "f"),
      Term("page", "1")>>

\* ftr of _score_l0
L0Filter == base_filter \o <<Term("chunk_level", "L0")>>

\* ftr of _score_l1_for_parent
L1Filter(parent_id) ==
    base_filter \o <<Term("chunk_level", "L1"), Term("parent_chunk_id", parent_id)>>

\* a fallback query that keeps the level but not the parent
L1FallbackFilterAnyParent(parent_id) == base_filter \o <<Term("chunk_level", "L1")>>
\* "filter": ftr of the script_score query of _score_l1_for_parent
L1FallbackFilter(parent_id) == L1Filter(parent_id)

\* relevance of the text query and cosine similarity of an L0 chunk, in hundredths
LexScores == {150, 250}
CosL0 == {50, 100}
\* cosine similarity of the L1 children of one answer, in hundredths
CosL1 == {-96, 0, 80}

\* "(_score * 0.4) + (cosineSimilarity(params.q, 'vector') * 0.6) + 1.0"
ScriptScoreL0(lex, cos) == (4 * lex + 6 * cos) \div 10 + 100

\* the fallback text query scores by relevance alone
MatchScoreL0(lex, cos) == lex

\* the engine's score of a KNN hit under cosine similarity: (1 + cosine) / 2
KnnScoreL1(cos) == (100 + cos) \div 2

\* "cosineSimilarity(params.q, 'vector') + 1.0"
ScriptScoreL1(cos) == cos + 100

\* the answers to an L0 query: hits best first
L0Answers(via) ==
    LET hit(i, lex, cos) ==
            [id |-> FbIds[i], lex |-> lex, cos |-> cos, via |-> via,
             score |-> <<IF via = "l0_script" THEN ScriptScoreL0(lex, cos)
                         ELSE MatchScoreL0(lex, cos)>>]
        all == UNION {{[i \in 1..n |-> hit(i, lx[i], cs[i])] :
                          lx \in [1..n -> LexScores], cs \in [1..n -> CosL0]} : n \in 0..MaxFbL0}
    IN  {a \in all : \A i \in 1..(Len(a) - 1) : a[i].score[1] >= a[i + 1].score[1]}

\* the answers to an L1 query for a parent, shaped as out.append({...})
L1Answers(parent_id, via) ==
    {[i \in 1..n |-> [chunk_level |-> "L1", parent |-> parent_id, via |-> via,
                      score |-> <<IF via = "l1_knn" THEN KnnScoreL1(cos)
                                  ELSE ScriptScoreL1(cos)>>]] :
        n \in 0..MaxFbL1, cos \in CosL1}

LogQuery(kind, ftr, raised) ==
    Append(fb_queries, [kind |-> kind, filter |-> ftr, raised |-> raised])

InitFallback ==
    /\ fb_pc = "l0"
    /\ fb_queries = <<>>
    /\ fb_l0 = <<>>
    /\ fb_i = 0
    /\ fb_cands = <<>>
    /\ fb_outcome = "running"
    /\ NotFallbackIdle

\* vector_db.py 790-791: the script_score query of _score_l0
ScoreL0Primary ==
    /\ fb_pc = "l0"
    /\ \/ \E a \in L0Answers("l0_script") :
             /\ fb_queries' = LogQuery("l0_script", L0Filter, FALSE)
             /\ fb_l0' = a
             /\ fb_i' = 1
             /\ fb_pc' = "l1"
       \/ /\ fb_queries' = LogQuery("l0_script", L0Filter, TRUE)
          /\ fb_pc' = "l0_fallback"
          /\ UNCHANGED <<fb_l0, fb_i>>
    /\ UNCHANGED <<fb_cands, fb_outcome>>
    /\ UNCHANGED notFb

\* vector_db.py 792-802: except Exception: the text query, not guarded
ScoreL0Fallback ==
    /\ fb_pc = "l0_fallback"
    /\ \/ \E a \in L0Answers("l0_match") :
             /\ fb_queries' = LogQuery("l0_match", L0Filter, FALSE)
             /\ fb_l0' = a
             /\ fb_i' = 1
             /\ fb_pc' = "l1"
             /\ UNCHANGED fb_outcome
       \/ /\ fb_queries' = LogQuery("l0_match", L0Filter, TRUE)
          /\ fb_pc' = "done"
          /\ fb_outcome' = "raised"
          /\ UNCHANGED <<fb_l0, fb_i>>
    /\ UNCHANGED fb_cands
    /\ UNCHANGED notFb

\* candidates.append({...}) of the L0 hit and the L1 answer
AppendCandidate(h, resp) ==
    Append(fb_cands, [cand |-> Candidate(h, resp), hit |-> h])

\* vector_db.py 823-835: the KNN search of _score_l1_for_parent
ScoreL1Primary ==
    /\ fb_pc = "l1"
    /\ fb_i <= Len(fb_l0)
    /\ LET h == fb_l0[fb_i]
       IN  \/ \E a \in L1Answers(h.id, "l1_knn") :
                 /\ fb_queries' = LogQuery("l1_knn", L1Filter(h.id), FALSE)
                 /\ fb_cands' = AppendCandidate(h, a)
                 /\ fb_i' = fb_i + 1
                 /\ UNCHANGED fb_pc
           \/ /\ fb_queries' = LogQuery("l1_knn", L1Filter(h.id), TRUE)
              /\ fb_pc' = "l1_fallback"
              /\ UNCHANGED <<fb_cands, fb_i>>
    /\ UNCHANGED <<fb_l0, fb_outcome>>
    /\ UNCHANGED notFb

\* vector_db.py 837-860: except Exception: the script_score query, not guarded
ScoreL1Fallback ==
    /\ fb_pc = "l1_fallback"
    /\ LET h == fb_l0[fb_i]
       IN  \/ \E a \in L1Answers(h.id, "l1_script") :
                 /\ fb_queries' = LogQuery("l1_script", L1FallbackFilter(h.id), FALSE)
                 /\ fb_cands' = AppendCandidate(h, a)
                 /\ fb_i' = fb_i + 1
                 /\ fb_pc' = "l1"
                 /\ UNCHANGED fb_outcome
           \/ /\ fb_queries' = LogQuery("l1_script", L1FallbackFilter(h.id), TRUE)
              /\ fb_pc' = "done"
              /\ fb_outcome' = "raised"
              /\ UNCHANGED <<fb_cands, fb_i>>
    /\ UNCHANGED fb_l0
    /\ UNCHANGED notFb

\* vector_db.py 971-993: the loop is through, the spans are returned
ReturnFallback ==
    /\ fb_pc = "l1"
    /\ fb_i > Len(fb_l0)
    /\ fb_pc' = "done"
    /\ fb_outcome' = "returned"
    /\ UNCHANGED <<fb_queries, fb_l0, fb_i, fb_cands>>
    /\ UNCHANGED notFb

NextFallback ==
    \/ ScoreL0Primary \/ ScoreL0Fallback \/ ScoreL1Primary \/ ScoreL1Fallback
    \/ ReturnFallback

SpecFallback == InitFallback /\ [][NextFallback]_vars

\* ----------------------------------------------- Singleton.__call__
MaxThreads == 3      \* threads calling Singleton classes at the same time

Threads == 1..MaxThreads
\* (cls, args, str(kwargs)) of the calls: one class with two argument lists
SingletonKeys == {"OpenAILLM:gpt-4o", "OpenAILLM:gpt-4.1"}

\* key not in cls._instances
NotCached(key) == sg_instances[key] = <<>>

\* a second check that never finds the key
SecondCheckSkipped(key) == TRUE
\* if key not in cls._instances: (line 32, under LOCK)
SecondCheck(key) == NotCached(key)

\* the object a constructor run of a thread makes: a new identity each run
NewInstance(t, key) == [cls_key |-> key, made_by |-> t]

InitSingleton ==
    /\ sg_pc = [t \in Threads |-> "check"]
    /\ sg_key \in [Threads -> SingletonKeys]
    /\ sg_instances = [k \in SingletonKeys |-> <<>>]
    /\ sg_lock = 0
    /\ sg_runs = [k \in SingletonKeys |-> 0]
    /\ sg_made = [t \in Threads |-> <<>>]
    /\ sg_got = [t \in Threads |-> <<>>]
    /\ NotSingletonIdle

\* singleton.py 30: if key not in cls._instances
FirstCheck(t) ==
    /\ sg_pc[t] = "check"
    /\ sg_pc' = [sg_pc EXCEPT ![t] = IF NotCached(sg_key[t]) THEN "acquire" ELSE "return"]
    /\ UNCHANGED <<sg_key, sg_instances, sg_lock, sg_runs, sg_made, sg_got>>
    /\ UNCHANGED notSg

\* singleton.py 31-32: with LOCK: if key not in cls._instances
AcquireLock(t) ==
    /\ sg_pc[t] = "acquire"
    /\ sg_lock = 0
    /\ sg_lock' = t
    /\ sg_pc' = [sg_pc EXCEPT ![t] = IF SecondCheck(sg_key[t]) THEN "construct" ELSE "release"]
    /\ UNCHANGED <<sg_key, sg_instances, sg_runs, sg_made, sg_got>>
    /\ UNCHANGED notSg

\* singleton.py 33: super(Singleton, cls).__call__(*args, **kwargs)
Construct(t) ==
    /\ sg_pc[t] = "construct"
    /\ sg_runs' = [sg_runs EXCEPT ![sg_key[t]] = @ + 1]
    /\ sg_made' = [sg_made EXCEPT ![t] = <<NewInstance(t, sg_key[t])>>]
    /\ sg_pc' = [sg_pc EXCEPT ![t] = "store"]
    /\ UNCHANGED <<sg_key, sg_instances, sg_lock, sg_got>>
    /\ UNCHANGED notSg

\* singleton.py 33: cls._instances[key] = ...
StoreInstance(t) ==
    /\ sg_pc[t] = "store"
    /\ sg_instances' = [sg_instances EXCEPT ![sg_key[t]] = sg_made[t]]
    /\ sg_pc' = [sg_pc EXCEPT ![t] = "release"]
    /\ UNCHANGED <<sg_key, sg_lock, sg_runs, sg_made, sg_got>>
    /\ UNCHANGED notSg

\* singleton.py 31: the end of the with block
ReleaseLock(t) ==
    /\ sg_pc[t] = "release"
    /\ sg_lock' = 0
    /\ sg_pc' = [sg_pc EXCEPT ![t] = "return"]
    /\ UNCHANGED <<sg_key, sg_instances, sg_runs, sg_made, sg_got>>
    /\ UNCHANGED notSg

\* singleton.py 35: return cls._instances[key]
ReturnInstance(t) ==
    /\ sg_pc[t] = "return"
    /\ sg_got' = [sg_got EXCEPT ![t] = sg_instances[sg_key[t]]]
    /\ sg_pc' = [sg_pc EXCEPT ![t] = "done"]
    /\ UNCHANGED <<sg_key, sg_instances, sg_lock, sg_runs, sg_made>>
    /\ UNCHANGED notSg

NextSingleton ==
    \E t \in Threads :
        \/ FirstCheck(t) \/ AcquireLock(t) \/ Construct(t) \/ StoreInstance(t)
        \/ ReleaseLock(t) \/ ReturnInstance(t)

SpecSingleton == InitSingleton /\ [][NextSingleton]_vars

\* --------------------- _prepare_embedding_model, concurrent first use
MaxRequests == 2     \* requests making first use of a model at the same time

Requests == 1..MaxRequests
\* two model names with one normalised name, and so one index name
FirstUseModels == {<<"a">>, <<"A">>}
\* the dimension lc.get_embeddings reports for both
FirstUseDim == [m \in FirstUseModels |-> 2]

\* self.es.indices.exists(index=name)
indices_exists(indices, name) == \E i \in indices : i.name = name

\* self.es.indices.create(index=name, body=settings): the engine rejects the
\* creation of an index that exists (the call raises), no ignore_status given
indices_create(indices, name, dim) ==
    IF indices_exists(indices, name)
    THEN [raised |-> TRUE, indices |-> indices]
    ELSE [raised |-> FALSE, indices |-> indices \cup {[name |-> name, dims |-> dim]}]

\* the index name a request works on at its position
IndexAt(r) ==
    IF cr_pc[r] \in {"exists_main", "create_main"}
    THEN get_index_name(cr_model[r])
    ELSE get_index_name_highlights(cr_model[r])

InitCreate ==
    /\ cr_pc = [r \in Requests |-> "lookup"]
    /\ cr_model \in [Requests -> FirstUseModels]
    /\ cr_indices = {}
    /\ cr_embeddings = {}
    /\ NotCreateIdle

\* vector_db.py 169-172: if model := self._embeddings.get(...): return model
LookupModel(r) ==
    /\ cr_pc[r] = "lookup"
    /\ cr_pc' = [cr_pc EXCEPT ![r] = IF cr_model[r] \in cr_embeddings THEN "done"
                                     ELSE "exists_main"]
    /\ UNCHANGED <<cr_model, cr_indices, cr_embeddings>>
    /\ UNCHANGED notCr

\* vector_db.py 153-154: if self.es.indices.exists(index=name): return
IndexExists(r) ==
    /\ cr_pc[r] \in {"exists_main", "exists_hl"}
    /\ cr_pc' = [cr_pc EXCEPT ![r] =
                    IF indices_exists(cr_indices, IndexAt(r))
                    THEN (IF cr_pc[r] = "exists_main" THEN "exists_hl" ELSE "store")
                    ELSE (IF cr_pc[r] = "exists_main" THEN "create_main" ELSE "create_hl")]
    /\ UNCHANGED <<cr_model, cr_indices, cr_embeddings>>
    /\ UNCHANGED notCr

\* vector_db.py 156-159: self.es.indices.create(index=name, body=settings)
IndexCreate(r) ==
    /\ cr_pc[r] \in {"create_main", "create_hl"}
    /\ LET o == indices_create(cr_indices, IndexAt(r), FirstUseDim[cr_model[r]])
       IN  /\ cr_indices' = o.indices
           /\ cr_pc' = [cr_pc EXCEPT ![r] =
                           IF o.raised THEN "raised"
                           ELSE IF cr_pc[r] = "create_main" THEN "exists_hl" ELSE "store"]
    /\ UNCHANGED <<cr_model, cr_embeddings>>
    /\ UNCHANGED notCr

\* vector_db.py 188-189: self._embeddings[emb_settings.name] = model
StoreModel(r) ==
    /\ cr_pc[r] = "store"
    /\ cr_embeddings' = cr_embeddings \cup {cr_model[r]}
    /\ cr_pc' = [cr_pc EXCEPT ![r] = "done"]
    /\ UNCHANGED <<cr_model, cr_indices>>
    /\ UNCHANGED notCr

NextCreate ==
    \E r \in Requests : LookupModel(r) \/ IndexExists(r) \/ IndexCreate(r) \/ StoreModel(r)

SpecCreate == InitCreate /\ [][NextCreate]_vars

(***************************************************************************)
(* SpecConcurrent: upload_file calls that run at the same time.  The       *)
(* upload endpoint is a plain def, so the server runs each call on a       *)
(* thread of its pool; upload_file takes no lock, and each request to the  *)
(* engine (the delete_by_query of delete_kb, the write of one batch) is a  *)
(* step of its own.  Each call has parsed its file; every write goes       *)
(* through (the raising ones are those of SpecStore).                      *)
(***************************************************************************)
MaxConcurrent == 2

Uploads == 1..MaxConcurrent

\* generate_batches(documents, 50) for the pages of call u
CuBatches(u) == generate_batches([i \in 1..cu_docs[u].pages |-> i], BatchSize)

\* str(uuid.uuid4()): the id of the k-th batch of call u, no other batch's
CuBatchId(u, k) == <<u, k>>

\* the documents ElasticsearchStore.from_documents writes for that batch
CuBatchDocs(u, k) ==
    {Passage(cu_docs[u].kb_id, cu_docs[u].project_id, CuBatches(u)[k][i], CuBatchId(u, k), 0) :
        i \in 1..Len(CuBatches(u)[k])}

InitConcurrent ==
    /\ NotConcurrentIdle
    /\ cu_docs \in [Uploads -> [kb_id : KbIds \cup {OtherKb}, project_id : {"p1"},
                                pages : 1..MaxPages]]
    /\ cu_pc = [u \in Uploads |-> "delete"]
    /\ cu_bi = [u \in Uploads |-> 0]
    /\ \E n \in 0..1 : cu_main = EarlierPassages("kb1", n)

\* vector_db.py 394: self.delete_kb(kb_id, project_id), the main indices
CuDeleteKb(u) ==
    /\ cu_pc[u] = "delete"
    /\ cu_main' = DeleteByKbQuery(cu_main, cu_docs[u].kb_id, cu_docs[u].project_id)
    /\ cu_pc' = [cu_pc EXCEPT ![u] = "store"]
    /\ cu_bi' = [cu_bi EXCEPT ![u] = 1]
    /\ UNCHANGED cu_docs
    /\ UNCHANGED notCu

\* vector_db.py 397-398, 241-247: the write of the next batch
CuWriteBatch(u) ==
    /\ cu_pc[u] = "store"
    /\ cu_bi[u] <= Len(CuBatches(u))
    /\ cu_main' = cu_main \cup CuBatchDocs(u, cu_bi[u])
    /\ cu_bi' = [cu_bi EXCEPT ![u] = @ + 1]
    /\ UNCHANGED <<cu_pc, cu_docs>>
    /\ UNCHANGED notCu

\* vector_db.py 407: the call returns the metadata of its first page
CuReturn(u) ==
    /\ cu_pc[u] = "store"
    /\ cu_bi[u] > Len(CuBatches(u))
    /\ cu_pc' = [cu_pc EXCEPT ![u] = "returned"]
    /\ UNCHANGED <<cu_docs, cu_bi, cu_main>>
    /\ UNCHANGED notCu

NextConcurrent ==
    \E u \in Uploads : CuDeleteKb(u) \/ CuWriteBatch(u) \/ CuReturn(u)

SpecConcurrent == InitConcurrent /\ [][NextConcurrent]_vars

(***************************************************************************)
(* C1: for ranked lists without a repeated id, reciprocal_rank_fusion      *)
(* returns every id of either list exactly once, with the score            *)
(* sum of 1/(rank + c) over the lists that hold the id (rank from 1),      *)
(* written over the hit's native score, in non-increasing score order.     *)
(***************************************************************************)
PositionIn(ids, x) == CHOOSE i \in 1..Len(ids) : ids[i] = x
ListShare(ids, x, c) == IF x \in Range(ids) THEN Rat(1, PositionIn(ids, x) + c) ELSE RZero

C1_FusionContract ==
    rag_pc = "rrf_done" =>
        LET dense == HitIds(hits_cosine)
            sparse == HitIds(hits_bm25)
            out == HitIds(hits)
        IN  /\ Range(out) = Range(dense) \cup Range(sparse)
            /\ Len(out) = Cardinality(Range(dense) \cup Range(sparse))
            /\ \A i \in 1..Len(hits) :
                  /\ hits[i].score[2] > 0
                  /\ REq(hits[i].score,
                         RAdd(ListShare(dense, out[i], rrf_c), ListShare(sparse, out[i], rrf_c)))
                  /\ \A h \in Range(hits_cosine) \cup Range(hits_bm25) :
                        h.id = out[i] => ~REq(hits[i].score, h.score)
            /\ \A i, j \in 1..Len(hits) : i < j => RLe(hits[j].score, hits[i].score)

C1_Witness ==
    /\ rag_pc = "rrf_done"
    /\ Len(hits_cosine) = MaxHits
    /\ Len(hits_bm25) = MaxHits
    /\ Len(hits) = 4
    /\ \E i, j \in 1..Len(hits) : i # j /\ REq(hits[i].score, hits[j].score)

(***************************************************************************)
(* C2 (as claimed): cosine list [A, B, C], BM25 list [B, A, D], c = 60:    *)
(* D is ranked strictly above C, and A and B, whose fused scores are       *)
(* equal, are ranked above both.                                           *)
(***************************************************************************)
C2_Case ==
    /\ rag_pc = "rrf_done"
    /\ HitIds(hits_cosine) = <<"A", "B", "C">>
    /\ HitIds(hits_bm25) = <<"B", "A", "D">>
    /\ rrf_c = DefaultC

C2_TiedPairOnTop ==
    LET out == HitIds(hits)
        pos(x) == PositionIn(out, x)
    IN  /\ Range(out) = {"A", "B", "C", "D"}
        /\ Len(out) = 4
        /\ REq(hits[pos("A")].score, hits[pos("B")].score)
        /\ \A x \in {"A", "B"} : \A y \in {"C", "D"} :
              /\ pos(x) < pos(y)
              /\ RLt(hits[pos(y)].score, hits[pos(x)].score)

C2_FusionExample ==
    C2_Case =>
        LET out == HitIds(hits)
            pos(x) == PositionIn(out, x)
        IN  /\ C2_TiedPairOnTop
            /\ pos("D") < pos("C")
            /\ RLt(hits[pos("C")].score, hits[pos("D")].score)

(***************************************************************************)
(* C2 (amended): for the same lists A and B, with equal fused scores       *)
(* 1/61 + 1/62, are ranked above both C and D; C (rank 3 of the cosine     *)
(* list) and D (rank 3 of the BM25 list) both score 1/63, so D is not      *)
(* ranked above C: the stable sort keeps C, inserted first, before D.      *)
(***************************************************************************)
C2_FusionExampleAmended ==
    C2_Case =>
        LET out == HitIds(hits)
            pos(x) == PositionIn(out, x)
        IN  /\ C2_TiedPairOnTop
            /\ REq(hits[pos("A")].score, RAdd(Rat(1, 61), Rat(1, 62)))
            /\ REq(hits[pos("C")].score, Rat(1, 63))
            /\ REq(hits[pos("D")].score, Rat(1, 63))
            /\ pos("C") < pos("D")

C2_Witness == C2_Case /\ HitIds(hits) = <<"A", "B", "C", "D">>

(***************************************************************************)
(* C3: with empty history_messages rewrite_query returns exactly the       *)
(* input query and neither looks up nor invokes a model.                   *)
(***************************************************************************)
C3_RewriteNoOp ==
    (rag_pc # "rewrite" /\ history_messages = <<>>) =>
        /\ rewritten_query = query
        /\ calls.rewrite_lookup = 0
        /\ calls.rewrite_gen = 0
        /\ rag_outcome # "RewriteError"

C3_Witness ==
    /\ rag_pc = "done"
    /\ rag_outcome = "returned"
    /\ context # <<>>
    /\ history_messages = <<>>
    /\ rewritten_query = query
    /\ calls.answer_gen = 1

(***************************************************************************)
(* C4: with non-empty history_messages, when a step of the rewrite (prompt *)
(* building, model lookup, generation call) raises, rewrite_query returns  *)
(* the original query and raises nothing, and the dense search that        *)
(* follows in rag() is issued with the original query.                     *)
(***************************************************************************)
C4_RewriteFailureNonFatal ==
    (rag_pc # "rewrite" /\ history_messages # <<>> /\ rewrite_fault # "none") =>
        /\ rewritten_query = query
        /\ rag_outcome # "RewriteError"
        /\ \/ rag_pc = "knn" /\ rag_outcome = "running"
           \/ Len(searches) >= 1 /\ searches[1] = [kind |-> "knn", query |-> query]

C4_Witness ==
    /\ rag_outcome = "returned"
    /\ history_messages # <<>>
    /\ rewrite_fault = "generate"
    /\ calls.rewrite_gen = 1
    /\ Len(searches) = 2
    /\ searches[2] = [kind |-> "bm25", query |-> query]

(***************************************************************************)
(* C5: a dense search with zero hits raises the record-not-found error and *)
(* rag() then issues no sparse search, no rerank and no generation call;   *)
(* a sparse search with zero hits raises nothing and rag() goes on with    *)
(* the dense hits alone.                                                   *)
(***************************************************************************)
C5_SearchAsymmetry ==
    /\ (Len(searches) >= 1 /\ es_dense = <<>>) =>
          /\ rag_pc = "done"
          /\ rag_outcome = "DBRecordNotFound"
          /\ Len(searches) = 1
          /\ calls.rerank = 0
          /\ calls.answer_gen = 0
    /\ (Len(searches) >= 1 /\ es_dense # <<>>) =>
          /\ rag_outcome # "DBRecordNotFound"
          /\ hits_cosine = es_dense
    /\ (Len(searches) = 2 /\ hits_bm25 = <<>>) =>
          /\ rag_outcome # "DBRecordNotFound"
          /\ rag_pc = "fuse" => rag_outcome = "running"
          /\ rag_pc = "rerank" => HitIds(hits) = HitIds(hits_cosine)
          /\ rag_pc \in {"generate", "done"} =>
                Range(HitIds(hits)) \subseteq Range(HitIds(hits_cosine))

C5_Witness ==
    /\ rag_outcome = "returned"
    /\ Len(searches) = 2
    /\ hits_bm25 = <<>>
    /\ HitIds(hits) = HitIds(hits_cosine)
    /\ Len(hits) >= 1
    /\ calls.answer_gen = 1

(***************************************************************************)
(* C6: when upload_file has run with writes that all succeeded and runs    *)
(* again with the same file, kb_id and project_id, again with writes that  *)
(* all succeed, then at its return the main index holds as many passages   *)
(* of that kb_id as the first run left, and of that knowledge base in that *)
(* project exactly one passage for each page of the file and no other.     *)
(***************************************************************************)
C6_SecondRun ==
    /\ up_pc = "return"
    /\ documents # <<>>
    /\ AllWritesOk
    /\ last.result = "returned"
    /\ last.writes_ok
    /\ last.args.kb_id = up_args.kb_id
    /\ last.args.project_id = up_args.project_id
    /\ last.args.pages = up_args.pages

C7_Recovered(log) ==
    /\ log.attempts > 0
    /\ log.clean
    /\ ~log.last_raised
    /\ log.failures <= MAX_RETRIES

C7_DocsOnce(log) ==
    \A i \in 1..Len(documents) :
        documents[i].batch_id = log.id =>
            /\ Cardinality({d \in KbPassages(main_index, up_args.kb_id, up_args.project_id) :
                                d.page = documents[i].page}) = 1
            /\ Cardinality({d \in main_index :
                                d.batch_id = log.id /\ d.page = documents[i].page}) = 1

C7_TransientFailure ==
    \A b \in 1..Len(batch_log) :
        C7_Recovered(batch_log[b]) =>
            /\ batch_log[b].attempts = batch_log[b].failures + 1
            /\ batch_log[b].counts = batch_log[b].failures
            /\ batch_log[b].counts_zero
            /\ C7_DocsOnce(batch_log[b])

C7_Witness ==
    /\ up_pc = "return"
    /\ \E b \in 1..Len(batch_log) :
          /\ C7_Recovered(batch_log[b])
          /\ batch_log[b].failures = MAX_RETRIES
          /\ batch_log[b].attempts = MAX_RETRIES + 1
    /\ \E b \in 1..Len(batch_log) :
          /\ C7_Recovered(batch_log[b])
          /\ batch_log[b].failures = 0

(***************************************************************************)
(* C8: no batch is written more than MAX_RETRIES + 1 = 4 times; a batch    *)
(* whose writes all raised is given up after its 4th write: then           *)
(* _embed_and_store has returned, and the upload_file call returns the     *)
(* metadata of the first document.                                         *)
(***************************************************************************)
C8_RetryCeiling ==
    /\ \A b \in 1..Len(batch_log) :
          /\ batch_log[b].attempts <= MAX_RETRIES + 1
          /\ batch_log[b].attempts <= 4
          /\ Dropped(batch_log[b]) => batch_log[b].attempts = MAX_RETRIES + 1
    /\ last.dropped =>
          /\ last.result = "returned"
          /\ last.value = <<[kb_id |-> last.args.kb_id,
                              project_id |-> last.args.project_id, page |-> 1]>>

C8_Witness ==
    /\ up_pc = "idle"
    /\ last.dropped
    /\ last.result = "returned"
    /\ last.args.pages > BatchSize

(***************************************************************************)
(* C9: when a step of the highlight pipeline raises, the upload_file call  *)
(* still returns the metadata of the first document, and the main index    *)
(* holds the passages it held when _embed_and_store returned.              *)
(***************************************************************************)
C9_HighlightFailureContained ==
    /\ up_pc = "return" => main_index = stored
    /\ last.hl_fault # "none" =>
          /\ last.result = "returned"
          /\ last.value # <<>>
          /\ last.kept

C9_Witness ==
    /\ up_pc = "idle"
    /\ last.hl_fault = "bulk"
    /\ last.result = "returned"
    /\ last.count > 0
    /\ hl_index # {}
    /\ \E d \in main_index : d.kb_id = last.args.kb_id

(***************************************************************************)
(* C10: a fetch_highlight_spans call that returns gives the empty list     *)
(* exactly when _score_l0 gave no hit.  Otherwise the first span is an L0  *)
(* span: that of a candidate no other candidate beats on the combined      *)
(* score, carrying that combined score; the spans after it are that        *)
(* candidate's kept L1 spans and nothing else: L1 chunks of that parent,   *)
(* each with its own score, at or above the floor, in non-increasing order *)
(* of score.                                                               *)
(***************************************************************************)
C10_Returned == loc_pc = "done" /\ loc_outcome = "returned"

C10_BestFirst ==
    \E k \in 1..Len(candidates) :
        /\ spans[1] = [chunk_level |-> "L0", id |-> candidates[k].l0_id,
                       score |-> candidates[k].combined]
        /\ l0_hits[k].id = spans[1].id
        /\ \A j \in 1..Len(candidates) : RLe(candidates[j].combined, spans[1].score)
        /\ Tail(spans) = candidates[k].l1_top

C10_L1Spans ==
    \A i \in 2..Len(spans) :
        /\ spans[i].chunk_level = "L1"
        /\ spans[i].parent = spans[1].id
        /\ spans[i].score # <<>>
        /\ spans[i].score[1] >= ScoreFloor
        /\ i > 2 => spans[i - 1].score[1] >= spans[i].score[1]

ReturnedRuns == {r \in 1..Len(ch_runs) : ~ch_runs[r].diverges}

\* the positions of the chunks of one level in the output of run r
ChunksAt(r, level) ==
    {k \in 1..Len(ch_runs[r].out) : ch_runs[r].out[k].chunk_level = level}

\* the pages that carry the id a chunk names as its source document: the
\* page it was cut from and, for passages without a page of their own, the
\* other passages of the file
PagesOf(r, c) ==
    {d \in 1..Len(ch_runs[r].docs) : ch_runs[r].docs[d].id = c.source_document_id}

\* the page text without the header that upload_file put in front of it
HeaderFree(doc) == Slice(doc.text, Len(Header(doc.source_file)), Len(doc.text))

\* the L0 chunks of run r that carry the id an L1 chunk names as its parent
ParentsOf(r, c) ==
    {j \in ChunksAt(r, "L0") : ch_runs[r].out[j].chunk_id = c.parent_chunk_id}

(***************************************************************************)
(* C11: in the output of every run of create_hierarchical_chunks that      *)
(* returns, each L0 chunk has 0 <= char_start < char_end <= the length of  *)
(* the text, without its header, of a page that carries its                *)
(* source_document_id (and of the text the chunks were cut from), and each *)
(* L1 chunk names an L0 chunk of the output as its parent and lies within  *)
(* it: parent.char_start <= char_start and char_end <= parent.char_end.    *)
(***************************************************************************)
C11_L0InPage(r, c) ==
    \E d \in PagesOf(r, c) :
         /\ 0 <= c.char_start
         /\ c.char_start < c.char_end
         /\ c.char_end <= Len(HeaderFree(ch_runs[r].docs[d]))
         /\ c.char_end <= Len(preprocess_text_for_chunking(ch_runs[r].docs[d].text))

C11_L1InParent(r, c) ==
    /\ ParentsOf(r, c) # {}
    /\ \A j \in ParentsOf(r, c) :
         /\ ch_runs[r].out[j].char_start <= c.char_start
         /\ c.char_end <= ch_runs[r].out[j].char_end

C11_ChunkContainment ==
    \A r \in ReturnedRuns :
        /\ \A k \in ChunksAt(r, "L0") : C11_L0InPage(r, ch_runs[r].out[k])
        /\ \A k \in ChunksAt(r, "L1") : C11_L1InParent(r, ch_runs[r].out[k])

\* a run returned an L0 chunk that starts inside the page and has an L1 chunk
\* that starts inside it
C11_Witness ==
    \E r \in ReturnedRuns : \E k \in ChunksAt(r, "L1") : \E j \in ParentsOf(r, ch_runs[r].out[k]) :
        /\ ch_runs[r].out[j].char_start > 0
        /\ ch_runs[r].out[k].char_start > ch_runs[r].out[j].char_start

\* chunk_id, level, offsets and parent_chunk_id of the chunks of run r, in order
ChunkKeys(r) ==
    [k \in 1..Len(ch_runs[r].out) |->
        [chunk_id |-> ch_runs[r].out[k].chunk_id,
         chunk_level |-> ch_runs[r].out[k].chunk_level,
         char_start |-> ch_runs[r].out[k].char_start,
         char_end |-> ch_runs[r].out[k].char_end,
         parent_chunk_id |-> ch_runs[r].out[k].parent_chunk_id]]

SpansOfPage(r, d) ==
    {ShiftSpan(SpanOfChunk(ch_runs[r].out[k]), ch_runs[r].docs[d].source_file) :
        k \in {j \in 1..Len(ch_runs[r].out) :
                 ch_runs[r].out[j].source_document_id = ch_runs[r].docs[d].id}}

\* start and end delimit a range of the stored text, and the range reads as
\* the span's text
SpanReadsBack(s, passage) ==
    /\ 0 <= s.start
    /\ s.start <= s.end
    /\ s.end <= Len(passage)
    /\ Slice(passage, s.start, s.end) = s.text

(***************************************************************************)
(* C13: for every page and every span built for it, start and end (the     *)
(* chunk's offsets plus the length of "SOURCE FILE: {source_file}\n\n")    *)
(* delimit a range of the stored passage text, header included, and the    *)
(* text in that range is the span's text.                                  *)
(***************************************************************************)
C13_HeaderRoundTrip ==
    \A r \in ReturnedRuns : \A d \in 1..Len(ch_runs[r].docs) :
        \A s \in SpansOfPage(r, d) : SpanReadsBack(s, ch_runs[r].docs[d].text)

\* the page " a" of file f was chunked: its one L0 span is "a" at 16..17 of
\* the stored text, where the stored text has the blank
C13_FailingInput ==
    /\ ch_docs = <<PageDoc(SourceFile, 1, <<" ", "a">>)>>
    /\ \E r \in ReturnedRuns :
         /\ ch_runs[r].docs = ch_docs
         /\ \E s \in SpansOfPage(r, 1) :
              /\ s.chunk_level = "L0"
              /\ s.start = 16 /\ s.end = 17 /\ s.text = <<"a">>
              /\ Slice(ch_docs[1].text, s.start, s.end) = <<" ">>

\* the indices of one family that the prepared model m writes to
SharedMain(m1, m2) == get_index_name(m1.name) = get_index_name(m2.name)
SharedHighlights(m1, m2) ==
    get_index_name_highlights(m1.name) = get_index_name_highlights(m2.name)

(***************************************************************************)
(* C14: two prepared embedding models with different names have different *)
(* main-index names and different highlight-index names, and every index   *)
(* a model writes to has the dims of that model.                           *)
(***************************************************************************)
C14_DistinctIndices ==
    /\ \A m1, m2 \in embeddings :
         m1.name # m2.name => ~SharedMain(m1, m2) /\ ~SharedHighlights(m1, m2)
    /\ \A m \in embeddings : \A i \in es_indices :
         i.name \in {get_index_name(m.name), get_index_name_highlights(m.name)}
             => i.dims = m.dim

\* the models "A" with 2 dimensions and "a" with 3 are both prepared; both
\* write to the indices named ..._a, which have 2 dims
C14_FailingInput ==
    /\ embeddings = {[name |-> <<"A">>, dim |-> 2], [name |-> <<"a">>, dim |-> 3]}
    /\ get_index_name(<<"A">>) = get_index_name(<<"a">>)
    /\ get_index_name_highlights(<<"A">>) = get_index_name_highlights(<<"a">>)
    /\ [name |-> get_index_name(<<"a">>), dims |-> 2] \in es_indices
    /\ Cardinality(es_indices) = 2

(***************************************************************************)
(* C15: in every streamed RAG response the first unit has chunk_index -1,  *)
(* empty text and the retrieval metadata (top_match, highlights,           *)
(* matched_chunks); every later unit is a text unit without metadata, the  *)
(* k-th of them with chunk_index k - 1 and the k-th fragment the model     *)
(* yielded (None sent as ""); a response that ran to its end has one text  *)
(* unit per fragment, and none when generation is disabled.                *)
(***************************************************************************)
C15_FirstUnit ==
    sr_units # <<>> =>
        /\ sr_units[1].chunk_index = -1
        /\ sr_units[1].text = ""
        /\ sr_units[1].top_match = RAGTopMatch(sr_chunks[1])
        /\ sr_units[1].highlights =
               (IF sr_payload.return_highlights THEN <<[hit |-> sr_chunks[1].id]>> ELSE <<>>)
        /\ sr_units[1].matched_chunks =
               (IF sr_payload.return_matched_chunks THEN <<sr_chunks>> ELSE <<>>)

C15_LaterUnits ==
    \A k \in 1..(Len(sr_units) - 1) :
        /\ DOMAIN sr_units[k + 1] = {"chunk_index", "is_last_chunk", "text"}
        /\ sr_units[k + 1].chunk_index = k - 1
        /\ sr_text_gen # <<>>
        /\ k <= Len(sr_text_gen[1])
        /\ sr_units[k + 1].text =
               (IF sr_text_gen[1][k] = <<>> THEN "" ELSE sr_text_gen[1][k][1])

C15_WholeStream ==
    sr_pc = "done" =>
        Len(sr_units) = 1 + (IF sr_text_gen = <<>> THEN 0 ELSE Len(sr_text_gen[1]))

C15_StreamOrder == C15_FirstUnit /\ C15_LaterUnits /\ C15_WholeStream

\* a response with three fragments, the last of them None, ran to its end
C15_Witness ==
    /\ sr_pc = "done"
    /\ Len(sr_units) = 4
    /\ sr_units[2].text = "a"
    /\ sr_units[3].text = "b"
    /\ sr_text_gen[1][3] = <<>>
    /\ sr_units[4].chunk_index = 2

\* generation is disabled and the response ended after its metadata unit
C15_WitnessNoGeneration ==
    /\ sr_pc = "done"
    /\ sr_text_gen = <<>>
    /\ Len(sr_units) = 1

(***************************************************************************)
(* C16: when a document-store lookup made while matched_chunks or          *)
(* top_match is shaped fails, the endpoint does not fail: the RAG response *)
(* is returned, or, when streaming, the metadata unit and the text units   *)
(* are delivered.                                                          *)
(***************************************************************************)
C16_LookupFailureDegrades ==
    kr_fault # "none" => kr_pc # "raised"

\* the record of kb1 is missing from the document store and from the cache;
\* ragnarok answered with top_match kb1 and one text unit, and the stream ended
\* with an exception before any unit was delivered
C16_FailingInput ==
    /\ kr_res = [matched_chunks |-> <<>>, top_match |-> "kb1", text_units |-> 1]
    /\ kr_store = {"kb2"}
    /\ kr_cache = {}
    /\ kr_fault = "get_kb_cached"
    /\ kr_pc = "raised"
    /\ kr_out = <<>>


\* highlight chunks of a kb_id under one project_id
HlChunksOf(kb_id, project_id) ==
    {d \in hl_index : d.kb_id = kb_id /\ d.project_id = project_id}

\* highlight chunks a delete_kb with these arguments matches
HlChunksMatching(args) ==
    {d \in hl_index : KbQuery(d, args.kb_id, args.project_id)}

\* C17: between calls, the highlight index holds chunks of a kb_id (within a
\* project) only if the most recent upload of it that reached its writes had
\* enable_highlights = true; a delete_kb call, or a finished re-upload with
\* enable_highlights = false, leaves no highlight chunk of that kb_id behind.
C17_HighlightLifecycle ==
    up_pc = "idle" =>
        /\ \A kb \in KbIds, q \in ProjectIds :
              HlChunksOf(kb, q) # {} => last.hl_on[<<kb, q>>]
        /\ last.result = "deleted" => HlChunksMatching(last.args) = {}
        /\ (last.result \in {"returned", "IndexError"} /\ ~last.args.enable_highlights)
              => HlChunksMatching(last.args) = {}

\* a re-upload with enable_highlights = false has just run its delete_kb after
\* an upload of the same kb_id and project wrote highlight chunks
C17_Witness ==
    /\ up_pc = "batches"
    /\ ~up_args.enable_highlights
    /\ last.result = "returned"
    /\ last.args.enable_highlights
    /\ last.args.pages > 0
    /\ last.hl_fault = "none"
    /\ up_args.kb_id = last.args.kb_id
    /\ up_args.project_id = last.args.project_id
    /\ HlChunksOf(up_args.kb_id, up_args.project_id) = {}


\* the filter list the statement describes for a request
C18_IsRequestFilter(ftr, req) ==
    LET n == Len(req.kb_ids)
        k == IF n > 0 THEN 2 ELSE 1
    IN  /\ Len(ftr) = k + Len(req.ftr_custom)
        /\ ftr[1] = Term("project_id", req.project_id)
        /\ n > 0 =>
              /\ ftr[2].kind = "bool"
              /\ Len(ftr[2].should) = n
              /\ \A i \in 1..n : ftr[2].should[i] = Term("kb_id", req.kb_ids[i])
        /\ \A i \in 1..Len(req.ftr_custom) : ftr[k + i] = req.ftr_custom[i]

\* a hit lies in the requested project and, for a non-empty kb_ids, in one of them
C18_HitInScope(hit, req) ==
    /\ Passages[hit.id].project_id = req.project_id
    /\ req.kb_ids # <<>> => Passages[hit.id].kb_id \in Range(req.kb_ids)

\* C18: the dense and the sparse search of one retrieval are issued with the
\* identical filter list (project_id term; an OR over kb_ids exactly when
\* kb_ids is non-empty; then the custom clauses in the given order), and
\* every hit rag() returns has the requested project_id and, when kb_ids is
\* non-empty, a kb_id that is a member of kb_ids.
C18_IdenticalFilters ==
    /\ \A i \in 1..Len(ft_filters) : C18_IsRequestFilter(ft_filters[i].filter, ft_req)
    /\ Len(ft_filters) = 2 => ft_filters[1].filter = ft_filters[2].filter
    /\ \A i \in 1..Len(ft_hits) : C18_HitInScope(ft_hits[i], ft_req)

\* rag() returned hits of both searches for a request with kb_ids and custom
\* clauses, while the index holds a passage of the same kb_id in another project
C18_Witness ==
    /\ ft_outcome = "returned"
    /\ Len(ft_filters) = 2
    /\ ft_req.kb_ids # <<>>
    /\ ft_req.ftr_custom # <<>>
    /\ ft_cosine # <<>>
    /\ ft_bm25 # <<>>
    /\ ft_hits # <<>>
    /\ \E id \in Ids : /\ Passages[id].kb_id \in Range(ft_req.kb_ids)
                       /\ Passages[id].project_id # ft_req.project_id


\* the indexed documents tagged with a batch id
TaggedWith(index, bid) == {d \in index : d.batch_id = bid}

\* a batch a retry round found fully present: its last write raised and a
\* count since then equalled its size
Skipped(log) == log.last_raised /\ ~log.due

\* the batch loop of a retry round stands before a batch
C19_AtRetriedBatch == up_pc = "batch" /\ bi <= Len(batches) /\ retries > 0

\* the step on a batch of a retry round: skipped without a delete or a write
\* when it is fully present, emptied and handed to the write otherwise
C19_CheckStep ==
    C19_AtRetriedBatch =>
        LET batch == batches[bi]
        IN  IF Cardinality(TaggedWith(main_index, batch.id)) = Len(batch.pages)
            THEN /\ main_index' = main_index
                 /\ up_pc' = "batch"
                 /\ bi' = bi + 1
                 /\ failed_batches' = failed_batches
            ELSE /\ TaggedWith(main_index', batch.id) = {}
                 /\ main_index' = main_index \ TaggedWith(main_index, batch.id)
                 /\ up_pc' = "write"
                 /\ bi' = bi

\* the write of a retry round starts from no document of the batch and, when
\* it does not raise, leaves the whole batch
C19_WriteStep ==
    (up_pc = "write" /\ retries > 0) =>
        LET batch == batches[bi]
        IN  /\ TaggedWith(main_index, batch.id) = {}
            /\ failed_batches' = failed_batches
                  => Cardinality(TaggedWith(main_index', batch.id)) = Len(batch.pages)

\* no count, delete or write is issued any more for a skipped batch
C19_SkippedStays ==
    \A k \in 1..Len(batch_log) :
        (Skipped(batch_log[k]) /\ Len(batch_log') = Len(batch_log)) =>
            /\ batch_log'[k] = batch_log[k]
            /\ TaggedWith(main_index', batch_log[k].id) = TaggedWith(main_index, batch_log[k].id)
            /\ \A i \in 1..Len(failed_batches') : failed_batches'[i].id # batch_log[k].id

\* C19: on every retry round, for each batch that failed in the previous
\* round: if the number of indexed documents tagged with the batch's id
\* equals the batch size, neither a delete nor a write is issued for it and
\* it is never retried again; otherwise all indexed documents tagged with
\* that batch id are deleted before the whole batch is embedded and written
\* again.
C19_RetryRound == [][C19_CheckStep /\ C19_WriteStep /\ C19_SkippedStays]_vars

\* one call in which a retry round skipped a batch it found complete and
\* emptied and rewrote another it found partly written
C19_Witness ==
    /\ \E k \in 1..Len(batch_log) : Skipped(batch_log[k])
    /\ \E k \in 1..Len(batch_log) :
          /\ batch_log[k].counts > 0
          /\ ~batch_log[k].counts_zero
          /\ batch_log[k].attempts > 1
          /\ ~batch_log[k].last_raised


\* the scores of a list of L1 children, a missing score counted as 0
ScoresOf(l1) == [i \in 1..Len(l1) |-> ScoreOr0(l1[i].score)]

\* sorted is l1 in descending order of score
C20_SortedDescending(sorted, l1) ==
    /\ Len(sorted) = Len(l1)
    /\ \A x \in Range(l1) : x \in Range(sorted)
    /\ \A i \in 1..(Len(sorted) - 1) : ScoreOr0(sorted[i].score) >= ScoreOr0(sorted[i + 1].score)

\* positions of the sorted children that are both among the first
\* max(1, floor(n/2)) and at or above the floor
C20_KeptPositions(sorted) ==
    {i \in 1..Len(sorted) :
        /\ i <= Max(1, Len(sorted) \div 2)
        /\ ScoreOr0(sorted[i].score) >= ScoreFloor}

\* kept lists exactly the children at those positions, in their order
C20_IsKept(kept, sorted) ==
    LET K == C20_KeptPositions(sorted)
    IN  /\ Len(kept) = Cardinality(K)
        /\ \A j \in 1..Len(kept) :
              kept[j] = sorted[CHOOSE i \in K : Cardinality({m \in K : m < i}) = j - 1]

\* C20: floor-and-half selection: of the n >= 1 L1 children of one L0
\* candidate, sorted by score descending (a missing score counts as 0),
\* exactly those are kept that are both among the first max(1, floor(n/2))
\* and have a score >= 0.05; scores [0.9, 0.8, 0.3, 0.02] keep [0.9, 0.8],
\* [0.9, 0.02] keep [0.9], and for n = 0 nothing is kept.
C20_FloorAndHalf ==
    sel_pc = "done" =>
        /\ C20_SortedDescending(sel_all, sel_resp)
        /\ C20_IsKept(sel_top, sel_all)
        /\ ScoresOf(sel_all) = <<90, 80, 30, 2>> => ScoresOf(sel_top) = <<90, 80>>
        /\ ScoresOf(sel_all) = <<90, 2>> => ScoresOf(sel_top) = <<90>>
        /\ sel_resp = <<>> => sel_top = <<>>

\* the first example, answered by the engine in another order: the half
\* cuts off a child above the floor
C20_Witness ==
    /\ sel_pc = "done"
    /\ ScoresOf(sel_resp) = <<2, 90, 30, 80>>
    /\ ScoresOf(sel_top) = <<90, 80>>

\* the half alone would keep a child that the floor drops
C20_WitnessFloor ==
    /\ sel_pc = "done"
    /\ ScoresOf(sel_all) = <<90, 2, 2, 0>>
    /\ ScoresOf(sel_top) = <<90>>


\* the combined lexical+vector score of an L0 hit: 0.4 * relevance + 0.6 * cosine
LexVecScore(h) == Rat((4 * h.lex + 6 * h.cos) \div 10, 100)

\* 0.5 * L0 score + 0.3 * average of the kept L1 scores + 0.2 * min(kept / 5, 1)
C21_Formula(l0, kept) ==
    LET n == Len(kept)
        avg == IF n > 0 THEN Rat(SumScores(kept), 100 * n) ELSE RZero
        vote == IF n >= 5 THEN Rat(1, 1) ELSE Rat(n, 5)
        l0_term == RNorm(RMul(Rat(1, 2), l0))
        avg_term == RNorm(RMul(Rat(3, 10), avg))
        vote_term == RNorm(RMul(Rat(1, 5), vote))
    IN  RNorm(RAdd(RNorm(RAdd(l0_term, avg_term)), vote_term))

\* C21: for every L0 candidate the combined score equals 0.5 * (the
\* candidate's combined lexical+vector L0 score) + 0.3 * (average score of
\* its kept L1 children, 0 when none is kept) + 0.2 * min(kept L1 count / 5, 1).
C21_CombinedScore ==
    \A i \in 1..Len(fb_cands) :
        REq(fb_cands[i].cand.combined,
            C21_Formula(LexVecScore(fb_cands[i].hit), fb_cands[i].cand.l1_top))

\* a candidate made of a hit of the fallback text query, with kept children:
\* its L0 term is the relevance minus 1.0
C21_FailingInput ==
    \E i \in 1..Len(fb_cands) :
        /\ fb_cands[i].hit.via = "l0_match"
        /\ fb_cands[i].cand.l1_votes > 0
        /\ REq(fb_cands[i].cand.l0_score, Rat(fb_cands[i].hit.lex - 100, 100))
        /\ ~REq(fb_cands[i].cand.combined,
                C21_Formula(LexVecScore(fb_cands[i].hit), fb_cands[i].cand.l1_top))

\* with hits of the script_score query the equation holds for every kept count
C21_ScriptPath ==
    \A i \in 1..Len(fb_cands) :
        fb_cands[i].hit.via = "l0_script" =>
            REq(fb_cands[i].cand.combined,
                C21_Formula(LexVecScore(fb_cands[i].hit), fb_cands[i].cand.l1_top))

\* a candidate of the script_score query with more than five kept children
C21_ScriptPathWitness ==
    \E i \in 1..Len(fb_cands) :
        /\ fb_cands[i].hit.via = "l0_script"
        /\ fb_cands[i].cand.l1_votes > 5


\* the fallback kind of a primary query kind
FallbackOf(kind) == IF kind = "l0_script" THEN "l0_match" ELSE "l1_script"
PrimaryKinds == {"l0_script", "l1_knn"}

\* the requests of one kind issued under one filter
QueriesOf(kind, ftr) ==
    {j \in 1..Len(fb_queries) : fb_queries[j].kind = kind /\ fb_queries[j].filter = ftr}

\* a primary query that raised is followed at once by its fallback under the
\* same filter, and a fallback is issued for nothing else
C25_FallbackFollows ==
    \A j \in 1..Len(fb_queries) :
        LET q == fb_queries[j]
        IN  /\ (q.kind \in PrimaryKinds /\ q.raised /\ j < Len(fb_queries)) =>
                  /\ fb_queries[j + 1].kind = FallbackOf(q.kind)
                  /\ fb_queries[j + 1].filter = q.filter
            /\ q.kind \notin PrimaryKinds =>
                  /\ j > 1
                  /\ fb_queries[j - 1].raised
                  /\ FallbackOf(fb_queries[j - 1].kind) = q.kind
                  /\ Cardinality(QueriesOf(q.kind, q.filter)) = 1

\* the hits the lookup goes on with are those of the query that answered
C25_ContinuesWithHits ==
    /\ \A i \in 1..Len(fb_l0) :
          \E j \in 1..Len(fb_queries) :
             /\ fb_queries[j].kind = fb_l0[i].via
             /\ ~fb_queries[j].raised
             /\ fb_queries[j].filter = L0Filter
    /\ \A i \in 1..Len(fb_cands) : \A m \in 1..Len(fb_cands[i].cand.l1_top) :
          \E j \in 1..Len(fb_queries) :
             /\ fb_queries[j].kind = fb_cands[i].cand.l1_top[m].via
             /\ ~fb_queries[j].raised
             /\ fb_queries[j].filter = L1Filter(fb_cands[i].hit.id)

\* the lookup fails only when a fallback query raised
C25_PrimaryAloneNeverFails ==
    /\ fb_outcome = "raised" =>
          /\ fb_queries[Len(fb_queries)].kind \notin PrimaryKinds
          /\ fb_queries[Len(fb_queries)].raised
    /\ (fb_pc = "done" /\ \A j \in 1..Len(fb_queries) :
                             fb_queries[j].raised => fb_queries[j].kind \in PrimaryKinds)
          => fb_outcome = "returned"

\* C25: when the primary L0 query raises, exactly one pure lexical match
\* query is issued under the same filter and the lookup continues with its
\* hits; when the primary L1 KNN query for a parent raises, exactly one exact
\* cosine script-score query is issued under the same filter and the lookup
\* continues with its hits; the failure of a primary query alone never fails
\* the highlight lookup.
C25_FallbackQueries ==
    /\ C25_FallbackFollows
    /\ C25_ContinuesWithHits
    /\ C25_PrimaryAloneNeverFails

\* a lookup returned although both primary queries raised, with a candidate
\* made of the fallback queries' hits
C25_Witness ==
    /\ fb_outcome = "returned"
    /\ \E j \in 1..Len(fb_queries) : fb_queries[j].kind = "l0_script" /\ fb_queries[j].raised
    /\ \E j \in 1..Len(fb_queries) : fb_queries[j].kind = "l1_knn" /\ fb_queries[j].raised
    /\ \E i \in 1..Len(fb_cands) :
          /\ fb_cands[i].hit.via = "l0_match"
          /\ fb_cands[i].cand.l1_top # <<>>
          /\ fb_cands[i].cand.l1_top[1].via = "l1_script"


\* the constructor body is entered at most once for each key
C22_OneRun == \A k \in DOMAIN sg_runs : sg_runs[k] <= 1

\* every call that returned received the cached instance of its key, the
\* same for all callers with equal arguments
C22_SameInstance ==
    \A t \in DOMAIN sg_got :
        sg_got[t] # <<>> =>
            /\ sg_got[t] = sg_instances[sg_key[t]]
            /\ \A u \in DOMAIN sg_got :
                  (sg_key[u] = sg_key[t] /\ sg_got[u] # <<>>) => sg_got[u] = sg_got[t]

\* a cached instance stays the cached instance of its key
C22_NeverReplaced ==
    \A k \in DOMAIN sg_instances :
        sg_instances[k] # <<>> =>
            (k \in DOMAIN sg_instances' /\ sg_instances'[k] = sg_instances[k])

\* C22: for any number of threads that concurrently call a Singleton-metaclass
\* class with equal arguments, under every interleaving the constructor body
\* runs at most once, every caller receives the same instance, and an
\* instance once cached is never replaced or evicted by later calls with the
\* same or other arguments.
C22_SingletonOnce == [](C22_OneRun /\ C22_SameInstance) /\ [][C22_NeverReplaced]_vars

\* two threads passed the first check for the same key before an instance
\* was cached: one ran the constructor and returned, the other holds LOCK
\* after the second check found the instance
C22_Witness ==
    \E t, u \in DOMAIN sg_pc :
        /\ t # u
        /\ sg_key[t] = sg_key[u]
        /\ sg_pc[t] = "done"
        /\ sg_made[t] # <<>>
        /\ sg_got[t] = sg_made[t]
        /\ sg_pc[u] = "release"
        /\ sg_made[u] = <<>>
        /\ sg_lock = u


\* the documents of an index that the delete_kb of the running call matches
MatchingCall(index) == {d \in index : KbQuery(d, up_args.kb_id, up_args.project_id)}

\* the running call has issued no batch write yet
NoWriteYet == \A b \in 1..Len(batch_log) : batch_log[b].attempts = 0

\* from the end of delete_kb to the first batch write neither index family
\* holds an entry of the kb
C23_EmptyBeforeFirstWrite ==
    (up_pc \in {"batches", "store", "batch", "write"} /\ NoWriteYet) =>
        /\ MatchingCall(main_index) = {}
        /\ MatchingCall(hl_index) = {}

\* passages are added by batch writes only, none while delete_kb runs
C23_WritesAfterDelete ==
    ~(main_index' \subseteq main_index) => up_pc = "write"

\* C23: in every run of upload_file the deletion of the existing entries of
\* kb_id from both index families completes before the first batch write of
\* the new passages is issued; if ingestion stops between the two steps, the
\* main index holds no passage at all for kb_id, neither old nor new.
C23_DeleteBeforeWrite == []C23_EmptyBeforeFirstWrite /\ [][C23_WritesAfterDelete]_vars

\* a re-upload of a kb with pages stands between delete_kb and its first
\* write; the upload before it left passages and highlight chunks of the kb
C23_Witness ==
    /\ up_pc = "batches"
    /\ up_args.pages > 0
    /\ last.result = "returned"
    /\ last.args.kb_id = up_args.kb_id
    /\ last.args.project_id = up_args.project_id
    /\ last.count > 0
    /\ last.args.enable_highlights
    /\ last.hl_fault = "none"
    /\ MatchingCall(main_index) = {}
    /\ MatchingCall(hl_index) = {}


\* every request is through
AllRequestsEnded == \A r \in DOMAIN cr_pc : cr_pc[r] \in {"done", "raised"}

\* C24: index creation is idempotent under concurrency: when two requests
\* concurrently make first use of an embedding model (same index name),
\* under every interleaving of their exists-checks and index creations both
\* requests complete without error and the index ends up present with the
\* one schema.
C24_ConcurrentCreateIdempotent ==
    /\ \A r \in DOMAIN cr_pc : cr_pc[r] # "raised"
    /\ AllRequestsEnded =>
          \A r \in DOMAIN cr_pc :
             /\ [name |-> get_index_name(cr_model[r]), dims |-> 2] \in cr_indices
             /\ [name |-> get_index_name_highlights(cr_model[r]), dims |-> 2] \in cr_indices

\* both requests saw the index missing; one created it, the creation of the
\* other was rejected and its request ended with the error
C24_FailingInput ==
    \E r, q \in DOMAIN cr_pc :
        /\ r # q
        /\ cr_pc[r] = "raised"
        /\ cr_pc[q] = "done"
        /\ get_index_name(cr_model[r]) = get_index_name(cr_model[q])
        /\ \E i \in cr_indices : i.name = get_index_name(cr_model[r])

(***************************************************************************)
(* C26: split_text_simple returns, with a list, for every text, every      *)
(* chunk_size > 0 and every overlap with 0 <= overlap < chunk_size: here   *)
(* for the call that every run of create_hierarchical_chunks makes first   *)
(* on each page, the page text cut to pieces of the L0 size with the L0    *)
(* overlap, the sliding window with overlap > 0 included.                  *)
(***************************************************************************)
C26_L0Call(r, d) ==
    split_text_simple(preprocess_text_for_chunking(ch_runs[r].docs[d].text),
                      ch_params.l0_size, ch_params.l0_overlap, Separators)

C26_SplitTerminates ==
    \A r \in 1..Len(ch_runs) : \A d \in 1..Len(ch_runs[r].docs) :
        ~C26_L0Call(r, d).diverges

\* a page text longer than the L0 size with none of the separators in it,
\* cut with overlap > 0: the window reaches the end of the text, steps back
\* by the overlap and never leaves the loop; the run never returns
C26_FailingInput ==
    \E r \in 1..Len(ch_runs) :
        LET text == preprocess_text_for_chunking(ch_runs[r].docs[1].text)
        IN  /\ ch_params.l0_overlap > 0
            /\ ch_params.l0_overlap < ch_params.l0_size
            /\ Len(text) > ch_params.l0_size
            /\ \A k \in 1..Len(Separators) : Find(text, Separators[k], 0) = -1
            /\ C26_L0Call(r, 1).diverges
            /\ ch_runs[r].diverges

\* without overlap the window leaves the loop at the end of the text
C26_NoOverlapReturns ==
    ch_params.l0_overlap = 0 /\ ch_params.l1_overlap = 0 => ChunkReturned

(***************************************************************************)
(* C27: in the output of every run of create_hierarchical_chunks no two    *)
(* chunks of the same level carry the same chunk_id, be they chunks of one *)
(* page or of two passages of one document: the bulk write keyed by        *)
(* chunk_id then holds as many documents as the run produced chunks.       *)
(***************************************************************************)
C27_SameLevel(r, i, j) ==
    ch_runs[r].out[i].chunk_level = ch_runs[r].out[j].chunk_level

C27_UniqueChunkIds ==
    \A r \in 1..Len(ch_runs) : \A i, j \in 1..Len(ch_runs[r].out) :
        i # j /\ C27_SameLevel(r, i, j)
            => ch_runs[r].out[i].chunk_id # ch_runs[r].out[j].chunk_id

\* the ids the bulk write of a run's chunks leaves in the highlight index
C27_IndexedIds(r) == {ch_runs[r].out[i].chunk_id : i \in 1..Len(ch_runs[r].out)}

\* one page, two L1 chunks of one L0 with the same text: the second is found
\* again at the place of the first, inside the overlap
C27_FailingInput ==
    \E r \in 1..Len(ch_runs) : \E i, j \in 1..Len(ch_runs[r].out) :
        /\ Len(ch_runs[r].docs) = 1
        /\ i < j
        /\ ch_runs[r].out[i].chunk_level = "L1"
        /\ ch_runs[r].out[j].chunk_level = "L1"
        /\ ch_runs[r].out[i].parent_chunk_id = ch_runs[r].out[j].parent_chunk_id
        /\ ch_runs[r].out[i].chunk_id = ch_runs[r].out[j].chunk_id
        /\ ch_runs[r].out[i].chunk_index # ch_runs[r].out[j].chunk_index
        /\ Cardinality(C27_IndexedIds(r)) < Len(ch_runs[r].out)

\* two passages without a page of their own: both are page 1 of the file,
\* so their L0 chunks with equal offsets share the id though the texts differ
C27_FailingPassages ==
    \E r \in 1..Len(ch_runs) : \E i, j \in 1..Len(ch_runs[r].out) :
        /\ Len(ch_runs[r].docs) = 2
        /\ ch_runs[r].docs[1].id = ch_runs[r].docs[2].id
        /\ i < j
        /\ ch_runs[r].out[i].chunk_level = "L0"
        /\ ch_runs[r].out[j].chunk_level = "L0"
        /\ ch_runs[r].out[i].chunk_id = ch_runs[r].out[j].chunk_id
        /\ ch_runs[r].out[i].text # ch_runs[r].out[j].text

(***************************************************************************)
(* C28: when _embed_and_store has returned, every batch of the upload is   *)
(* either fully present in the main index, each of its pages exactly once, *)
(* or entirely absent, also when writes committed a part of a batch before *)
(* raising and when the batch was dropped after the retry ceiling.         *)
(***************************************************************************)
\* _embed_and_store has returned to upload_file
C28_StoreReturned == up_pc \in {"highlights", "return"}

\* the pages of the batch with that id, as the documents are tagged
C28_PagesOf(bid) ==
    {documents[i].page : i \in {j \in 1..Len(documents) : documents[j].batch_id = bid}}

\* the documents of the index with that batch id
C28_Present(bid) == {d \in main_index : d.batch_id = bid}

C28_FullyPresent(bid) ==
    /\ {d.page : d \in C28_Present(bid)} = C28_PagesOf(bid)
    /\ Cardinality(C28_Present(bid)) = Cardinality(C28_PagesOf(bid))

C28_BatchAllOrNothing ==
    C28_StoreReturned =>
        \A b \in 1..Len(batch_log) :
            C28_FullyPresent(batch_log[b].id) \/ C28_Present(batch_log[b].id) = {}

\* a batch of two pages whose write raised in every round, the last one
\* after committing one of the two: the ceiling is reached, the batch is
\* dropped and the one document stays
C28_FailingInput ==
    /\ C28_StoreReturned
    /\ \E b \in 1..Len(batch_log) :
          /\ Dropped(batch_log[b])
          /\ batch_log[b].attempts = MAX_RETRIES + 1
          /\ batch_log[b].failures = MAX_RETRIES + 1
          /\ Cardinality(C28_PagesOf(batch_log[b].id)) = 2
          /\ Cardinality(C28_Present(batch_log[b].id)) = 1

\* a batch whose last write went through is fully present
C28_WrittenIsPresent ==
    C28_StoreReturned =>
        \A b \in 1..Len(batch_log) :
            batch_log[b].attempts > 0 /\ ~batch_log[b].last_raised
                => C28_FullyPresent(batch_log[b].id)

(***************************************************************************)
(* C29: for two upload_file calls on the same kb_id and project_id that    *)
(* run at the same time, under every interleaving of their delete and      *)
(* write steps the main index holds, once both have returned, at most one  *)
(* passage per page of that knowledge base: the passages of exactly one of *)
(* the two uploads.                                                        *)
(***************************************************************************)
C29_SameKb(u, v) ==
    /\ u # v
    /\ cu_docs[u].kb_id = cu_docs[v].kb_id
    /\ cu_docs[u].project_id = cu_docs[v].project_id

C29_BothReturned(u, v) == cu_pc[u] = "returned" /\ cu_pc[v] = "returned"

\* the passages of the knowledge base of call u
C29_KbPassages(u) ==
    {d \in cu_main : d.kb_id = cu_docs[u].kb_id /\ d.project_id = cu_docs[u].project_id}

C29_OnePerPage(u) ==
    \A d, e \in C29_KbPassages(u) : d.page = e.page => d = e

\* the passages call w wrote
C29_PassagesOfUpload(w) ==
    UNION {CuBatchDocs(w, k) : k \in 1..Len(CuBatches(w))}

C29_OneUploadWins ==
    \A u, v \in DOMAIN cu_pc :
        C29_SameKb(u, v) /\ C29_BothReturned(u, v)
            => /\ C29_OnePerPage(u)
               /\ \E w \in {u, v} : C29_KbPassages(u) = C29_PassagesOfUpload(w)

\* both calls deleted before either wrote: both uploads' passages stay
C29_FailingInput ==
    \E u, v \in DOMAIN cu_pc :
        /\ C29_SameKb(u, v)
        /\ C29_BothReturned(u, v)
        /\ C29_KbPassages(u) = C29_PassagesOfUpload(u) \cup C29_PassagesOfUpload(v)
        /\ \E d, e \in C29_KbPassages(u) : d.page = e.page /\ d # e

\* calls on different knowledge bases leave each other's passages alone
C29_OtherKbUntouched ==
    \A u, v \in DOMAIN cu_pc :
        u # v /\ cu_docs[u].kb_id # cu_docs[v].kb_id /\ C29_BothReturned(u, v)
            => C29_KbPassages(u) = C29_PassagesOfUpload(u)

(***************************************************************************)
(* C30: an upload_file call that does not return KB metadata leaves the    *)
(* knowledge base as it was: no step of a call that parsed zero pages      *)
(* (it ends with the IndexError of documents[0]) and no call whose parser  *)
(* raised (an unsupported source type) changes the passages or the         *)
(* highlight chunks indexed for its kb_id.                                 *)
(***************************************************************************)
\* a call in progress that parsed zero pages
C30_ZeroPageCall == up_pc # "idle" /\ documents = <<>>

\* what an index holds for the kb_id of the call in progress
C30_KbOf(index) == {d \in index : d.kb_id = up_args.kb_id}

C30_ZeroPagesStep ==
    C30_ZeroPageCall =>
        /\ C30_KbOf(main_index') = C30_KbOf(main_index)
        /\ C30_KbOf(hl_index') = C30_KbOf(hl_index)

\* an upload_file call that ends where it began, with the parser's error
C30_ParseErrorStep ==
    up_pc = "idle" /\ up_pc' = "idle" /\ calls_left' # calls_left
                   /\ last'.result = "ParseError"
        => main_index' = main_index /\ hl_index' = hl_index

C30_FailedUploadKeepsKb == [][C30_ZeroPagesStep /\ C30_ParseErrorStep]_vars

\* a zero-page call in the middle of delete_kb on a knowledge base that held
\* passages and chunks: the passages are gone, the chunks go next
C30_FailingInput ==
    /\ C30_ZeroPageCall
    /\ up_pc = "delete_hl"
    /\ C30_KbOf(main_index) = {}
    /\ C30_KbOf(hl_index) # {}

\* every call that parsed zero pages ends with the IndexError, after the
\* delete; none returns metadata
C30_ZeroPagesRaise ==
    /\ last.result = "returned" => last.args.pages > 0
    /\ last.result = "IndexError" =>
          last.args.pages = 0 /\ KbPassages(main_index, last.args.kb_id, last.args.project_id) = {}

\* the call whose parser raised changes nothing
C30_ParseErrorKeeps == [][C30_ParseErrorStep]_vars

====
